---- MODULE Spec2Model ----
(***************************************************************************)
(* Hot-reload subsystem of podplay: the watchdog event handlers of         *)
(* src/src/cert_manager.py (HotReloadEventHandler, mail strategy),         *)
(* src/src/user_manager.py (HotReloadUserEventHandler) and                 *)
(* src/src/dkim_manager.py (DKIMKeyEventHandler), their debounce map       *)
(* pending_reloads, the delayed_reload timer threads and the reload        *)
(* pipeline validate -> backup -> execute -> health check.                 *)
(*                                                                         *)
(* One behaviour is one watch session of one handler.  The observer thread *)
(* delivers created/modified events one at a time (OnFileEvent); every     *)
(* schedule_reload that passes its guard starts a daemon thread, modelled  *)
(* as one record of the sequence threads.  A thread sleeps DebounceTime    *)
(* seconds, then evaluates "key in pending_reloads" (Fire), then deletes   *)
(* the key and calls the handler (Delete); the two are separate steps      *)
(* because the interpreter may switch threads between them.  A thread that *)
(* has ended leaves the sequence; the result of the reload it ran is the   *)
(* last line of the log.                                                   *)
(*                                                                         *)
(* Two further specifications follow one strategy method on its data:      *)
(* SpecZone is BindDKIMReloadStrategy.update_zone_with_dkim on the lines   *)
(* of a zone file, SpecUsers is MailUserReloadStrategy.execute on a parsed *)
(* users.yaml and the two files generated from it.  Texts (serials, keys,  *)
(* map lines) are strings.  In Spec the zone file and the generated maps   *)
(* are followed through installed only.  SpecUsers also calls              *)
(* validate_user_config and add_user.  SpecWeb is the start of a watcher   *)
(* and, for the service type apache, handle_certificate_change on the text *)
(* of a certificate file.  SpecAuth is the registration of the web portal  *)
(* (register.py, confirm.py, auth.py on lib/user_db.py).  SpecLive is Spec *)
(* with weak fairness of the timer threads, SpecRun adds weak fairness of  *)
(* the steps of a reload that has started.  SpecShared is the execute of   *)
(* the user strategy method by method, for reloads that overlap on the one *)
(* strategy object; SpecAuthConf is configure_dovecot_auth on the lines of *)
(* 10-auth.conf; SpecLimiter is check_limit and record_attempt of          *)
(* lib/rate_limit.py on the file of one address.                           *)
(***************************************************************************)
EXTENDS Integers, Sequences, FiniteSets, TLC

\* ---------------------------------------------------------------- bounds
MaxEvents == 2      \* file events delivered in one session

\* ------------------------------------------------------ program constants
DebounceTime == 2   \* self.debounce_time / self.debounce_seconds

Handlers == {"mail", "user", "dkim"}

\* A path is <<domain directory, stem, suffix>>.
Domain1 == "example.com"
Fullchain == <<Domain1, "fullchain", ".pem">>
Privkey == <<Domain1, "privkey", ".pem">>
UsersYaml == <<"config", "users", ".yaml">>
AliasesYml == <<"config", "aliases", ".yml">>
DkimTxt == <<Domain1, "default", ".txt">>
DkimPrivate == <<Domain1, "default", ".private">>

\* The files written under the watched root of handler h.
WatchedFiles(h) ==
    CASE h = "mail" -> {Fullchain, Privkey}
      [] h = "user" -> {UsersYaml, AliasesYml}
      [] h = "dkim" -> {DkimTxt, DkimPrivate}

\* File contents: absent, content the handler's validator accepts, content
\* it rejects.  Of the zone file the model follows the DKIM record only.
Contents == {"absent", "good", "bad"}

cert_extensions == {".pem", ".crt", ".cer", ".key"}
config_extensions == {".yaml", ".yml", ".json"}
dkim_files == {<<"default", ".txt">>, <<"default", ".private">>}

is_certificate(path) == path[3] \in cert_extensions
is_user_config(path) == path[3] \in config_extensions
is_dkim_file(path) == <<path[2], path[3]>> \in dkim_files
get_domain_from_path(path) == path[1]

\* The recognizer on_created / on_modified apply before schedule_reload.
Recognized(h, path) ==
    CASE h = "mail" -> is_certificate(path)
      [] h = "user" -> is_user_config(path)
      [] h = "dkim" -> is_dkim_file(path)

\* The key schedule_reload debounces on: the path (certificate, user
\* config), the domain (DKIM).
ReloadKey(h, path) ==
    IF h = "dkim" THEN <<get_domain_from_path(path), "", "">> ELSE path

\* schedule_reload of the user handler returns at once for every file but
\* users.yaml.
PassesFilter(h, path) ==
    h = "user" => (path[2] = "users" /\ path[3] = ".yaml")

VARIABLES
    handler,            \* the event handler class of this session
    domain,             \* self.domain of the strategy: "" when not given
    files,              \* content of each watched file
    pending_reloads,    \* the handler's dict: key -> True | seconds since
                        \* the time.time() stored (DKIM), up to DebounceTime
    threads,            \* the live delayed_reload threads, in start order
    installed,          \* what execute last wrote for the service
    backups,            \* the backup directory: the newest backup of each
                        \* base name -> its content
    log,                \* the outcome of the reload that ended last
    nevents,            \* events delivered so far
    nactions,           \* per key, the calls of the handler so far
    fired,              \* keys of which a timer has fired
    late,               \* keys that got an event after a timer of theirs fired
    straggler,          \* an event came after the session's first timer fired
    issued,             \* the commands the last call of execute ran, in order
    zone_file,          \* /etc/bind/zones/db.<domain>: its lines
    zone_backup,        \* the zone backup made last: its lines
    today,              \* datetime.now().strftime('%Y%m%d')
    zone_result,        \* the last call of update_zone_with_dkim
    nupdates,           \* calls of update_zone_with_dkim so far
    yaml_type,          \* what yaml.safe_load returns for users.yaml
    user_config,        \* the parsed users.yaml when it is a mapping
    user_valid,         \* the last call of validate_user_config
    vmailbox,           \* /etc/postfix/vmailbox: its lines
    dovecot_passwd,     \* /etc/dovecot/passwd: its lines
    user_result,        \* the last call of MailUserReloadStrategy.execute
    valias,             \* /etc/postfix/valias: its lines
    auth_conf,          \* /etc/dovecot/conf.d/10-auth.conf: its lines
    nrewrites,          \* calls of configure_dovecot_auth so far
    self_user_config,   \* self.user_config of the one strategy object
    execs,              \* the calls of execute on it: where each is and what
                        \* it loaded
    watched,            \* what the watcher was started for
    root_exists,        \* whether the path given to the watcher exists
    watcher,            \* where the watch function is
    errors,             \* the error messages written so far
    cert_file,          \* the certificate file under the root: its lines
    commands,           \* the apache2ctl commands run so far, in order
    web_log,            \* the last call of handle_certificate_change
    nchanges,           \* calls of handle_certificate_change so far
    users_db,           \* users.yaml of the web portal: its domains
    pending,            \* the pending registrations: token -> data
    clock,              \* the time, in hours
    ntokens,            \* confirmation tokens generated so far
    response,           \* the last response of a CGI script
    registrations,      \* per token, the email and password submitted and
                        \* whether the token was confirmed
    rate_file,          \* the rate-limit file of one address and action
    checked             \* what the last call of check_limit returned

\* The state of a watch session, of the zone patcher, of the user
\* provisioning and of a web session.
session_vars == <<handler, domain, files, pending_reloads, threads, installed,
                  backups, log, nevents, nactions, fired, late, straggler,
                  issued>>
zone_vars == <<zone_file, zone_backup, today, zone_result, nupdates>>
strategy_vars == <<valias, auth_conf, nrewrites, self_user_config, execs>>
user_vars == <<yaml_type, user_config, user_valid, vmailbox, dovecot_passwd,
               user_result, strategy_vars>>
web_vars == <<watched, root_exists, watcher, errors, cert_file, commands,
              web_log, nchanges>>

limiter_vars == <<rate_file, checked>>
auth_vars == <<users_db, pending, clock, ntokens, response, registrations,
               limiter_vars>>

vars == <<session_vars, zone_vars, user_vars, web_vars, auth_vars>>

\* The keys the session's handler can debounce on.
Keys(h) == {ReloadKey(h, p) : p \in WatchedFiles(h)}


\* ------------------------------------------------------------ dictionaries
EmptyDict == [x \in {} |-> TRUE]
DictSet(d, k, v) == [x \in (DOMAIN d) \cup {k} |-> IF x = k THEN v ELSE d[x]]

\* del d[k]
DictDelKept(d, k) == d
DictDel(d, k) == [x \in (DOMAIN d) \ {k} |-> d[x]]

\* ------------------------------------------------------- schedule_reload
\* "if cert_path in self.pending_reloads: return" (certificate and user
\* handlers); the DKIM handler has no such test.
AlreadyPendingAlways(h, p, key) == TRUE
AlreadyPending(h, p, key) == h # "dkim" /\ key \in DOMAIN p

\* The value stored under the key: True, or time.time() in the DKIM handler
\* (kept as the seconds elapsed since, 0 when stored).
PendingValue(h) == IF h = "dkim" THEN 0 ELSE TRUE

\* threading.Thread(target=delayed_reload).start(); after is the outcome
\* the log ended with when the thread was started.
NewThread(key) ==
    [key |-> key, slept |-> 0, pc |-> "sleep", validated |-> "-",
     backed_up |-> "-", success |-> "-", after |-> log.outcome]

\* The log entry of a reload that has ended.
LogEntry(t, healthy, outcome) ==
    [validated |-> t.validated, backed_up |-> t.backed_up,
     success |-> t.success, healthy |-> healthy, outcome |-> outcome]

NoEntry ==
    [validated |-> "-", backed_up |-> "-", success |-> "-", healthy |-> "-",
     outcome |-> "-"]

RemoveAt(s, i) == SubSeq(s, 1, i - 1) \o SubSeq(s, i + 1, Len(s))

\* Whether on_created / on_modified reach the body of schedule_reload.
Schedules(h, path) ==
    /\ Recognized(h, path)
    /\ h = "dkim" => get_domain_from_path(path) # ""
    /\ PassesFilter(h, path)

\* An external writer creates or rewrites a watched file and the observer
\* thread dispatches on_created / on_modified for it, schedule_reload
\* included.
OnFileEvent(path, content) ==
    /\ nevents < MaxEvents
    /\ nevents' = nevents + 1
    /\ files' = [files EXCEPT ![path] = content]
    /\ straggler' = (straggler \/ fired # {})
    /\ IF Schedules(handler, path)
         THEN LET key == ReloadKey(handler, path) IN
              /\ late' = IF key \in fired THEN late \cup {key} ELSE late
              /\ IF AlreadyPending(handler, pending_reloads, key)
                   THEN UNCHANGED <<pending_reloads, threads>>
                   ELSE /\ pending_reloads' =
                             DictSet(pending_reloads, key, PendingValue(handler))
                        /\ threads' = Append(threads, NewThread(key))
         ELSE UNCHANGED <<pending_reloads, threads, late>>
    /\ UNCHANGED <<issued, handler, domain, installed, backups, log, nactions, fired>>

\* A file the recognizers reject, such as the temporary file a writer
\* renames onto the watched name.
TempFile == <<Domain1, "incoming", ".tmp">>

\* An external writer renames src onto the watched file dest inside the
\* watched tree and the observer thread dispatches on_moved.
\* CertificateEventHandler.on_moved prints one line, for the destination
\* when it is a certificate, else for the source when that is one; the user
\* and DKIM handlers inherit the empty FileSystemEventHandler.on_moved.  No
\* handler calls schedule_reload from on_moved.
OnMoved(src, dest, content) ==
    /\ nevents < MaxEvents
    /\ src # dest
    /\ IF src = TempFile THEN TRUE ELSE files[src] = content
    /\ nevents' = nevents + 1
    /\ files' = [p \in DOMAIN files |->
                    IF p = dest THEN content
                    ELSE IF p = src THEN "absent" ELSE files[p]]
    /\ straggler' = (straggler \/ fired # {})
    /\ UNCHANGED <<issued, handler, domain, pending_reloads, threads, installed,
                   backups, log, nactions, fired, late>>

\* ---------------------------------------------------------- delayed_reload
\* time.sleep(debounce) has returned and the thread evaluates
\* "if key in self.pending_reloads".
StillPendingNever(p, key) == FALSE
StillPending(p, key) == key \in DOMAIN p

Fire(i) ==
    /\ threads[i].pc = "sleep"
    /\ threads[i].slept >= DebounceTime
    /\ threads' = IF StillPending(pending_reloads, threads[i].key)
                     THEN [threads EXCEPT ![i].pc = "del"]
                     ELSE RemoveAt(threads, i)
    /\ fired' = fired \cup {threads[i].key}
    /\ UNCHANGED <<issued, handler, domain, files, pending_reloads, installed,
                   backups, log, nevents, nactions, late, straggler>>

\* "del self.pending_reloads[key]" followed by the call of the handler; the
\* del raises KeyError, which ends the thread, when another thread has
\* removed the key since the test.
Delete(i) ==
    /\ threads[i].pc = "del"
    /\ IF threads[i].key \in DOMAIN pending_reloads
         THEN /\ pending_reloads' = DictDel(pending_reloads, threads[i].key)
              /\ threads' = [threads EXCEPT ![i].pc = "validate"]
              /\ nactions' = [nactions EXCEPT ![threads[i].key] = @ + 1]
         ELSE /\ threads' = RemoveAt(threads, i)
              /\ UNCHANGED <<pending_reloads, nactions>>
    /\ UNCHANGED <<issued, handler, domain, files, installed, backups, log,
                   nevents, fired, late, straggler>>


\* --------------------------------------------------------- reload strategy
\* What the handler validates for key: validate_certificate (a PEM boundary
\* pair in the changed file), validate_user_config (the YAML shape), and in
\* handle_dkim_change the presence of both key files and of a p= value in
\* default.txt.
ValidatesPublicRecordOnly(h, f, key) ==
    IF h = "dkim" THEN f[DkimTxt] = "good" ELSE f[key] = "good"
Validates(h, f, key) ==
    CASE h = "mail" -> f[key] = "good"
      [] h = "user" -> f[key] = "good"
      [] h = "dkim" -> /\ f[DkimTxt] # "absent" /\ f[DkimPrivate] # "absent"
                       /\ f[DkimTxt] = "good"

\* The stage that follows validation.
AfterValidateIgnored(h, ok) == IF h = "dkim" THEN "execute" ELSE "backup"
AfterValidate(h, ok) ==
    IF ~ok THEN "done" ELSE IF h = "dkim" THEN "execute" ELSE "backup"

\* The stage that follows the backup step, whatever its result.
AfterBackupRequired(ok) == IF ok THEN "execute" ELSE "done"
AfterBackupToHealth(ok) == "health"
AfterBackup(ok) == "execute"

\* "if success and health_check()": the health check runs only after a
\* successful execute.  handle_dkim_change has no health check.
AfterExecuteAlways(h, success) == IF h = "dkim" THEN "done" ELSE "health"
AfterExecute(h, success) ==
    IF success /\ h # "dkim" THEN "health" ELSE "done"

\* The log line that ends the handler.
OutcomeSilent(success, healthy) == "-"
OutcomeOfExecute(success, healthy) == IF success THEN "Completed" ELSE "Failed"
Outcome(success, healthy) == IF success /\ healthy THEN "Completed" ELSE "Failed"

\* The backup file's base name: <basename>.backup for a certificate,
\* users-<time>.yaml.backup for the user configuration, db.<domain>.<time>
\* for the zone.
BackupName(h, key) ==
    CASE h = "mail" -> <<key[2], key[3]>>
      [] h = "user" -> <<"users", ".yaml">>
      [] h = "dkim" -> <<"db", key[1]>>

\* backup_certificate copies the file when it exists and returns True; any
\* error makes it return False.  The user handler's shutil.copy2 fails on a
\* missing file too.
BackupResult(h, f, key, io_ok) ==
    IF h = "mail" THEN f[key] = "absent" \/ io_ok
    ELSE io_ok /\ f[key] # "absent"

BackupWrites(h, f, key, io_ok) == io_ok /\ f[key] # "absent"

\* The files execute writes for the service.
Targets(h) ==
    CASE h = "mail" -> {"server.pem", "server.key"}
      [] h = "user" -> {"vmailbox"}
      [] h = "dkim" -> {"zone"}

Validate(i) ==
    /\ threads[i].pc = "validate"
    /\ LET ok == Validates(handler, files, threads[i].key)
           t == [threads[i] EXCEPT !.validated = IF ok THEN "ok" ELSE "fail",
                                   !.pc = AfterValidate(handler, ok)] IN
       IF t.pc = "done"
         THEN /\ threads' = RemoveAt(threads, i)
              /\ log' = LogEntry(t, "-", "Invalid")
         ELSE /\ threads' = [threads EXCEPT ![i] = t]
              /\ UNCHANGED log
    /\ UNCHANGED <<issued, handler, domain, files, pending_reloads, installed,
                   backups, nevents, nactions, fired, late, straggler>>

Backup(i) ==
    /\ threads[i].pc = "backup"
    /\ \E io_ok \in BOOLEAN :
         LET key == threads[i].key
             ok == BackupResult(handler, files, key, io_ok) IN
         /\ backups' = IF BackupWrites(handler, files, key, io_ok)
                         THEN DictSet(backups, BackupName(handler, key), files[key])
                         ELSE backups
         /\ LET t == [threads[i] EXCEPT !.backed_up = IF ok THEN "ok" ELSE "fail",
                                         !.pc = AfterBackup(ok)] IN
            IF t.pc = "done"
              THEN /\ threads' = RemoveAt(threads, i)
                   /\ log' = LogEntry(t, "-", "Failed")
              ELSE /\ threads' = [threads EXCEPT ![i] = t]
                   /\ UNCHANGED log
    /\ UNCHANGED <<issued, handler, domain, files, pending_reloads, installed,
                   nevents, nactions, fired, late, straggler>>


\* The external steps of one execute run in sequence and the first failure
\* ends it: io is the file work (copying the certificates; loading the
\* configuration, creating the directories, generating and postmapping the
\* maps; finding and backing up the zone file), first and second are the
\* two commands run after it (postfix reload, doveadm reload;
\* named-checkzone, rndc reload).  fails names the step that fails.
ExecEnv ==
    {[io |-> f # "io", first |-> f # "first", second |-> f # "second"] :
        f \in {"none", "io", "first", "second"}}

\* Whether execute gets as far as its commands: copy_certificates needs the
\* domain and both certificate files; the user strategy loads the
\* configuration again, without validating it, and generates the maps from
\* it.
ExecutePrepared(h, dom, f, key, env) ==
    CASE h = "mail" -> /\ dom # ""
                       /\ f[<<dom, "fullchain", ".pem">>] # "absent"
                       /\ f[<<dom, "privkey", ".pem">>] # "absent"
                       /\ env.io
      [] h = "user" -> f[key] # "absent" /\ env.io
      [] h = "dkim" -> env.io

\* The service files after execute.  The zone file is written with the key
\* extracted before and, when named-checkzone rejects it, restored from the
\* backup just made.
ExecuteInstalls(h, dom, f, inst, key, env) ==
    IF ~ExecutePrepared(h, dom, f, key, env) THEN inst
    ELSE CASE h = "mail" ->
                [t \in Targets(h) |-> IF t = "server.pem"
                                        THEN f[<<dom, "fullchain", ".pem">>]
                                        ELSE f[<<dom, "privkey", ".pem">>]]
           [] h = "user" -> [t \in Targets(h) |-> f[key]]
           [] h = "dkim" -> IF env.first THEN [t \in Targets(h) |-> "good"]
                            ELSE inst

\* The value execute / update_zone_with_dkim returns.
ExecuteSuccess(h, dom, f, key, env) ==
    ExecutePrepared(h, dom, f, key, env) /\ env.first /\ env.second

\* The commands execute runs once its file work is done: postfix reload
\* and, when that returned 0, doveadm reload (certificate and user
\* strategies); named-checkzone and, when that returned 0, rndc reload.
ReloadCommandsBoth(h, prepared, env) ==
    IF ~prepared THEN <<>>
    ELSE IF h = "dkim" THEN <<"named-checkzone", "rndc reload">>
    ELSE <<"postfix reload", "doveadm reload">>
ReloadCommands(h, prepared, env) ==
    IF ~prepared THEN <<>>
    ELSE IF h = "dkim"
      THEN <<"named-checkzone">>
           \o (IF env.first THEN <<"rndc reload">> ELSE <<>>)
    ELSE <<"postfix reload">>
         \o (IF env.first THEN <<"doveadm reload">> ELSE <<>>)

ExecuteWith(i, env) ==
    /\ threads[i].pc = "execute"
    /\ LET key == threads[i].key
           success == ExecuteSuccess(handler, domain, files, key, env) IN
       /\ installed' = ExecuteInstalls(handler, domain, files, installed, key, env)
       /\ issued' = ReloadCommands(handler,
                        ExecutePrepared(handler, domain, files, key, env), env)
       /\ backups' = IF handler = "dkim" /\ env.io
                       THEN DictSet(backups, BackupName(handler, key),
                                    installed["zone"])
                       ELSE backups
       /\ LET t == [threads[i] EXCEPT !.success = IF success THEN "ok" ELSE "fail",
                                       !.pc = AfterExecute(handler, success)] IN
          IF t.pc = "done"
            THEN /\ threads' = RemoveAt(threads, i)
                 /\ log' = LogEntry(t, "-", Outcome(success, handler = "dkim"))
            ELSE /\ threads' = [threads EXCEPT ![i] = t]
                 /\ UNCHANGED log
    /\ UNCHANGED <<handler, domain, files, pending_reloads, nevents,
                   nactions, fired, late, straggler>>

Execute(i) == \E env \in ExecEnv : ExecuteWith(i, env)

\* health_check / authentication_test: both probed ports accept a connect.
HealthResult(smtp_ok, imap_ok) == smtp_ok /\ imap_ok

\* What a failed health check does to the service files: it logs an error
\* and leaves them.
OnHealthFailureRollback(inst) == [t \in DOMAIN inst |-> "absent"]
OnHealthFailure(inst) == inst

\* The ports the health checks name, and test_port(port) when the ports
\* of open accept a connect.  MailReloadStrategy.health_check probes all
\* four and decides on smtp_ok and imap_ok; authentication_test probes
\* those two only.
SmtpPort == 25
SubmissionPort == 587
ImapPort == 143
ImapsPort == 993
Ports == {SmtpPort, SubmissionPort, ImapPort, ImapsPort}
test_port(open, port) == port \in open

HealthCheckWith(i, open) ==
    /\ threads[i].pc = "health"
    /\ LET smtp_ok == test_port(open, SmtpPort)
           imap_ok == test_port(open, ImapPort)
           healthy == HealthResult(smtp_ok, imap_ok) IN
       /\ threads' = RemoveAt(threads, i)
       /\ log' = LogEntry(threads[i], IF healthy THEN "ok" ELSE "fail",
                          Outcome(threads[i].success = "ok", healthy))
       /\ installed' = IF healthy THEN installed ELSE OnHealthFailure(installed)
    /\ UNCHANGED <<issued, handler, domain, files, pending_reloads, backups,
                   nevents, nactions, fired, late, straggler>>

HealthCheck(i) == \E open \in SUBSET Ports : HealthCheckWith(i, open)

\* One second passes for the sleeping threads and the stored times.  Time
\* is only followed while a thread still has to sleep.
Min(a, b) == IF a < b THEN a ELSE b

Tick ==
    /\ \E i \in 1..Len(threads) :
         threads[i].pc = "sleep" /\ threads[i].slept < DebounceTime
    /\ threads' = [i \in 1..Len(threads) |->
         IF threads[i].pc = "sleep"
           THEN [threads[i] EXCEPT !.slept = Min(@ + 1, DebounceTime)]
           ELSE threads[i]]
    /\ pending_reloads' = [k \in DOMAIN pending_reloads |->
         IF handler = "dkim" THEN Min(pending_reloads[k] + 1, DebounceTime)
         ELSE pending_reloads[k]]
    /\ UNCHANGED <<issued, handler, domain, files, installed, backups, log, nevents,
                   nactions, fired, late, straggler>>

\* ------------------------------------------------------------ zone patcher
\* BindDKIMReloadStrategy.update_zone_with_dkim on the text of the zone
\* file.  The file is a sequence of lines; a line is its class and, for the
\* serial line, the digits before "; Serial", for a line of a TXT record the
\* content of its quoted string.
MaxUpdates == 2     \* zone updates in one behaviour
ChunkSize == 255    \* the slice length of the chunking

DigitChars == <<"0", "1", "2", "3", "4", "5", "6", "7", "8", "9">>
DigitVal(c) == CHOOSE d \in 0..9 : DigitChars[d + 1] = c

\* int(s) of a string of digits, and the formats {n} and {n:02d}.
RECURSIVE ToInt(_)
ToInt(s) ==
    IF Len(s) = 0 THEN 0
    ELSE ToInt(SubSeq(s, 1, Len(s) - 1)) * 10 + DigitVal(SubSeq(s, Len(s), Len(s)))

RECURSIVE ToStr(_)
ToStr(n) ==
    IF n < 10 THEN DigitChars[n + 1]
    ELSE ToStr(n \div 10) \o DigitChars[(n % 10) + 1]

Format02d(n) == IF n < 10 THEN "0" \o ToStr(n) ELSE ToStr(n)

\* str.replace(old, new): every occurrence, left to right.
RECURSIVE Replace(_, _, _)
Replace(s, old, new) ==
    IF Len(s) < Len(old) THEN s
    ELSE IF SubSeq(s, 1, Len(old)) = old
           THEN new \o Replace(SubSeq(s, Len(old) + 1, Len(s)), old, new)
           ELSE SubSeq(s, 1, 1) \o Replace(SubSeq(s, 2, Len(s)), old, new)

Line(kind, text) == [kind |-> kind, text |-> text]
SerialLine(digits) == Line("serial", digits)    \*     <digits> ; Serial
RRLine == Line("rr", "")                        \* another resource record
BlankLine == Line("blank", "")
MarkerLine == Line("marker", "")    \* ; DKIM - Domain Keys Identified Mail
CommentLine == Line("comment", "")  \* ; <text>, a placeholder note
MailHeaderLine == Line("mailhdr", "")   \* ; Additional mail-related records
CloseLine == Line("close", "")          \*     )

\* The lines a comment of the section pattern, "; [^\n]*\n", matches, the
\* lines that begin with default._domainkey, and the lines the fallback
\* skips inside the section.
CommentKinds == {"marker", "comment", "mailhdr"}
DomainkeyKinds == {"record", "open"}

\* re.search(r'(\d{10})\s*;\s*Serial', zone_content).group(1): the ten
\* digits that end the digits of the first serial line; "" when no line
\* matches.
RECURSIVE SerialMatch(_)
SerialMatch(lines) ==
    IF lines = <<>> THEN ""
    ELSE IF Head(lines).kind = "serial" /\ Len(Head(lines).text) >= 10
           THEN SubSeq(Head(lines).text, Len(Head(lines).text) - 9,
                       Len(Head(lines).text))
           ELSE SerialMatch(Tail(lines))

\* The serial that replaces old_serial on the day now.
NewSerial(old_serial, now) ==
    LET date_part == SubSeq(old_serial, 1, 8)
        seq_part == ToInt(SubSeq(old_serial, 9, 10)) IN
    IF date_part = now THEN date_part \o Format02d(seq_part + 1)
    ELSE now \o "01"

\* zone_content.replace(old_serial, new_serial); of the lines modelled only
\* the serial line holds digits.
UpdateSerial(lines, now) ==
    LET old_serial == SerialMatch(lines) IN
    IF old_serial = "" THEN lines
    ELSE [i \in 1..Len(lines) |->
            IF lines[i].kind = "serial"
              THEN Line("serial",
                        Replace(lines[i].text, old_serial, NewSerial(old_serial, now)))
              ELSE lines[i]]

\* [public_key[i:i+255] for i in range(0, len(public_key), 255)]
ChunksTruncated(public_key) ==
    [j \in 1..(Len(public_key) \div ChunkSize) |->
        SubSeq(public_key, (j - 1) * ChunkSize + 1, j * ChunkSize)]
Chunks(public_key) ==
    [j \in 1..((Len(public_key) + ChunkSize - 1) \div ChunkSize) |->
        SubSeq(public_key, (j - 1) * ChunkSize + 1,
               Min(j * ChunkSize, Len(public_key)))]

RecordHeader == "v=DKIM1; h=sha256; k=rsa; t=y; "

\* dkim_record: one line for a key of up to 255 characters, else the
\* opening line with the header string, a line per chunk (the first with
\* p= before the chunk) and the closing line.
DkimRecord(public_key) ==
    IF Len(public_key) > ChunkSize
      THEN LET chunks == Chunks(public_key) IN
           <<Line("open", RecordHeader)>>
           \o [j \in 1..Len(chunks) |->
                 Line("quoted", IF j = 1 THEN "p=" \o chunks[j] ELSE chunks[j])]
           \o <<CloseLine>>
      ELSE <<Line("record", RecordHeader \o "p=" \o public_key)>>

RECURSIVE DropComments(_)
DropComments(lines) ==
    IF lines # <<>> /\ Head(lines).kind \in CommentKinds
      THEN DropComments(Tail(lines)) ELSE lines

\* re.sub of the section pattern: the marker line, the comment lines after
\* it and at most one line that begins with default._domainkey are
\* replaced by the marker and the record, at every match.
RECURSIVE ReplaceSections(_, _)
ReplaceSections(lines, record) ==
    IF lines = <<>> THEN <<>>
    ELSE IF Head(lines).kind = "marker"
      THEN LET rest == DropComments(Tail(lines))
               after == IF rest # <<>> /\ Head(rest).kind \in DomainkeyKinds
                          THEN Tail(rest) ELSE rest IN
           <<MarkerLine>> \o record \o ReplaceSections(after, record)
      ELSE <<Head(lines)>> \o ReplaceSections(Tail(lines), record)

\* The fallback line scan, taken when the text names default._domainkey
\* but holds no marker comment.
RECURSIVE FallbackScan(_, _, _)
FallbackScan(lines, record, in_dkim_section) ==
    IF lines = <<>> THEN <<>>
    ELSE LET line == Head(lines) IN
         IF line.kind = "marker"
           THEN <<MarkerLine>> \o record \o FallbackScan(Tail(lines), record, TRUE)
         ELSE IF in_dkim_section /\ line.kind \in CommentKinds \cup DomainkeyKinds
           THEN FallbackScan(Tail(lines), record, TRUE)
         ELSE IF in_dkim_section /\ line.kind = "blank"
           THEN <<line>> \o FallbackScan(Tail(lines), record, FALSE)
         ELSE <<line>> \o FallbackScan(Tail(lines), record, in_dkim_section)

RECURSIVE RStrip(_)
RStrip(lines) ==
    IF lines # <<>> /\ lines[Len(lines)].kind = "blank"
      THEN RStrip(SubSeq(lines, 1, Len(lines) - 1)) ELSE lines

HasKind(lines, kinds) == \E i \in 1..Len(lines) : lines[i].kind \in kinds
FirstOfKind(lines, kind) ==
    CHOOSE i \in 1..Len(lines) :
        lines[i].kind = kind /\ \A j \in 1..(i - 1) : lines[j].kind # kind

\* The section step of update_zone_with_dkim: replace the section when the
\* text names default._domainkey or the marker, else insert it before the
\* mail records or at the end.
UpdateSection(lines, record) ==
    IF HasKind(lines, DomainkeyKinds \cup {"marker"})
      THEN IF HasKind(lines, {"marker"})
             THEN ReplaceSections(lines, record)
             ELSE FallbackScan(lines, record, FALSE)
      ELSE IF HasKind(lines, {"mailhdr"})
             THEN LET insert_point == FirstOfKind(lines, "mailhdr") IN
                  SubSeq(lines, 1, insert_point - 1)
                  \o <<MarkerLine>> \o record \o <<BlankLine>>
                  \o SubSeq(lines, insert_point, Len(lines))
             ELSE RStrip(lines) \o <<BlankLine, MarkerLine>> \o record

\* The text update_zone_with_dkim writes to the zone file.
Rewritten(lines, public_key, now) ==
    UpdateSection(UpdateSerial(lines, now), DkimRecord(public_key))

\* The commands of one update: cp of the backup, named-checkzone, rndc
\* reload; fails names the one that fails.  raise is an exception after the
\* file was written: subprocess.run cannot start named-checkzone.
ZoneEnv ==
    {[cp |-> f # "cp", check |-> f # "check", rndc |-> f # "rndc",
      raises |-> f = "raise"] :
        f \in {"none", "cp", "check", "rndc", "raise"}}

\* What a failed zone check does to the zone file: cp backup_file zone_file.
RestoreSkipped(written, backup) == written
Restore(written, backup) == backup

\* One call of update_zone_with_dkim(domain, public_key).
update_zone_with_dkim(public_key, env) ==
    /\ nupdates < MaxUpdates
    /\ nupdates' = nupdates + 1
    /\ IF zone_file = <<>> \/ ~env.cp
         THEN /\ zone_result' = [called |-> TRUE, key |-> public_key,
                                 written |-> FALSE, check |-> "-",
                                 rndc |-> FALSE, returned |-> FALSE]
              /\ UNCHANGED <<zone_file, zone_backup>>
         ELSE LET written == Rewritten(zone_file, public_key, today) IN
              /\ zone_backup' = zone_file
              /\ zone_file' = IF env.raises \/ env.check THEN written
                              ELSE Restore(written, zone_file)
              /\ zone_result' = [called |-> TRUE, key |-> public_key,
                                 written |-> TRUE,
                                 check |-> IF env.raises THEN "raised"
                                           ELSE IF env.check THEN "ok"
                                           ELSE "fail",
                                 rndc |-> ~env.raises /\ env.check,
                                 returned |-> /\ ~env.raises
                                              /\ env.check /\ env.rndc]
    /\ UNCHANGED today

\* The sample days, in order, and the step to the next day.
Dates == <<"20240101", "20240102">>
DayOf(now) == CHOOSE i \in 1..Len(Dates) : Dates[i] = now

NextDay ==
    /\ DayOf(today) < Len(Dates)
    /\ today' = Dates[DayOf(today) + 1]
    /\ UNCHANGED <<zone_file, zone_backup, zone_result, nupdates>>

\* The sample keys: the first n characters of a base64-like text.
KeyText ==
    LET t7 == "AbCdEfG"
        t14 == t7 \o t7
        t28 == t14 \o t14
        t56 == t28 \o t28
        t112 == t56 \o t56
        t224 == t112 \o t112
        t448 == t224 \o t224 IN
    t448 \o t448
KeyOf(n) == SubSeq(KeyText, 1, n)
KeyLengths == {ChunkSize, ChunkSize + 1, 300, 2 * ChunkSize, 2 * ChunkSize + 1}
PublicKeys == {KeyOf(n) : n \in KeyLengths}

\* The sample zone files: without a DKIM section (with and without the
\* mail records comment), with the placeholder section, with a record
\* written by hand without the marker, and no file.
ZoneTemplates(serial) ==
    { <<SerialLine(serial), RRLine, BlankLine, MailHeaderLine, RRLine>>,
      <<SerialLine(serial), RRLine>>,
      <<SerialLine(serial), RRLine, BlankLine, MarkerLine, CommentLine,
        BlankLine, MailHeaderLine, RRLine>>,
      <<SerialLine(serial), RRLine, Line("record", RecordHeader \o "p=" \o KeyOf(8))>> }
Serials == {"2024010101", "2024010199", "2024010201"}
ZoneFiles == {<<>>} \cup UNION {ZoneTemplates(serial) : serial \in Serials}

\* -------------------------------------------------------- user provisioning
\* MailUserReloadStrategy.execute on the parsed users.yaml: a mapping with
\* the optional keys domains (a list of {name, users}) and test_users; a
\* user is a mapping with username and password and the optional keys
\* enabled, services and domain.
MaxUsers == 2       \* users of the sample domain

\* dict.get(key, default)
Get(d, key, default) == IF key \in DOMAIN d THEN d[key] ELSE default

\* s.startswith(prefix)
StartsWith(s, prefix) ==
    Len(s) >= Len(prefix) /\ SubSeq(s, 1, Len(prefix)) = prefix

\* 'x' in s, for a string and for a list
Contains(s, c) == \E i \in 1..Len(s) : SubSeq(s, i, i) = c
InList(x, list) == \E i \in 1..Len(list) : list[i] = x

\* user.get('enabled', True) and 'mail' in user.get('services', ['mail'])
IsEnabled(user) == Get(user, "enabled", TRUE)
HasMail(user) == InList("mail", Get(user, "services", <<"mail">>))

\* The address of a user of a domain: the username when it holds an @,
\* else username@domain.
EmailOf(user, domain_name) ==
    IF ~Contains(user.username, "@")
      THEN user.username \o "@" \o domain_name
      ELSE user.username

\* The users a map gets a line for, in the order of the list: the enabled
\* domain users with the mail service, the test users with the mail service.
EnabledMailUsers(users) ==
    LET Keep(user) == IsEnabled(user) /\ HasMail(user) IN SelectSeq(users, Keep)
MailTestUsers(users) ==
    LET Keep(user) == HasMail(user) IN SelectSeq(users, Keep)

RECURSIVE Flatten(_)
Flatten(lists) ==
    IF lists = <<>> THEN <<>> ELSE Head(lists) \o Flatten(Tail(lists))

VmailboxLine(email) == email \o " users/" \o email \o "/mail/Maildir/"

\* generate_vmailbox_map: a line for every enabled domain user with the
\* mail service, then a line for every test user with the mail service.
generate_vmailbox_map(config) ==
    Flatten([d \in 1..Len(Get(config, "domains", <<>>)) |->
        LET domain_config == config.domains[d]
            users == EnabledMailUsers(domain_config.users) IN
        [i \in 1..Len(users) |->
            VmailboxLine(EmailOf(users[i], domain_config.name))]])
    \o LET users == MailTestUsers(Get(config, "test_users", <<>>)) IN
       [i \in 1..Len(users) |->
           VmailboxLine(users[i].username \o "@" \o users[i].domain)]

\* generate_password_hash: crypt.crypt with a fresh SHA-512 salt, written
\* here as the scheme prefix, the salt and the digest of the password.
generate_password_hash(password) == "$6$" \o "salt$" \o "digest-of-" \o password

\* "if password.startswith("$6$")": a hashed password is stored as it is.
PasswordHash(password) ==
    IF StartsWith(password, "$6$") THEN password
    ELSE generate_password_hash(password)

PasswdLine(email, password) ==
    email \o ":" \o PasswordHash(password) \o ":vmail:vmail::"
    \o "/data/user-data/users/" \o email \o "/mail" \o "::"

\* generate_dovecot_passwd: a line for the same users in the same order.
generate_dovecot_passwd(config) ==
    Flatten([d \in 1..Len(Get(config, "domains", <<>>)) |->
        LET domain_config == config.domains[d]
            users == EnabledMailUsers(domain_config.users) IN
        [i \in 1..Len(users) |->
            PasswdLine(EmailOf(users[i], domain_config.name), users[i].password)]])
    \o LET users == MailTestUsers(Get(config, "test_users", <<>>)) IN
       [i \in 1..Len(users) |->
           PasswdLine(users[i].username \o "@" \o users[i].domain,
                      users[i].password)]

\* What yaml.safe_load makes of users.yaml: a mapping, a list, None for an
\* empty file, or an exception.
YamlTypes == {"dict", "list", "none", "error"}

\* user_config for a document that is not a mapping.  A list holds neither
\* 'domains' nor 'test_users', so what execute generates from a list is
\* what it generates from this.
NotRead == [version |-> "-"]

Has(d, keys) == keys \subseteq DOMAIN d

\* validate_user_config: the document is a dict and, when it has the key
\* domains, every domain has name and users and every user of a domain has
\* username and password.  Any exception makes it return False.
validate_user_config(type, config) ==
    /\ type = "dict"
    /\ "domains" \in DOMAIN config =>
          \A d \in 1..Len(config.domains) :
              /\ Has(config.domains[d], {"name", "users"})
              /\ \A u \in 1..Len(config.domains[d].users) :
                    Has(config.domains[d].users[u], {"username", "password"})

\* Whether a subscript of create_user_directories raises KeyError:
\* domain_config['name'], domain_config['users'], user['username'] of an
\* enabled user, user['domain'] and user['username'] of a test user.
\* generate_vmailbox_map subscripts the same keys of fewer users.
DirectoriesKeyError(config) ==
    \/ \E d \in 1..Len(Get(config, "domains", <<>>)) :
          \/ ~Has(config.domains[d], {"name", "users"})
          \/ \E u \in 1..Len(config.domains[d].users) :
                LET user == config.domains[d].users[u] IN
                IsEnabled(user) /\ ~Has(user, {"username"})
    \/ \E u \in 1..Len(Get(config, "test_users", <<>>)) :
          ~Has(config.test_users[u], {"domain", "username"})

\* Whether generate_dovecot_passwd raises KeyError: user['password'] of an
\* enabled user with the mail service and of a test user with it.
PasswdKeyError(config) ==
    \/ \E d \in 1..Len(Get(config, "domains", <<>>)) :
          \E u \in 1..Len(config.domains[d].users) :
              LET user == config.domains[d].users[u] IN
              IsEnabled(user) /\ HasMail(user) /\ ~Has(user, {"password"})
    \/ \E u \in 1..Len(Get(config, "test_users", <<>>)) :
          LET user == config.test_users[u] IN
          HasMail(user) /\ ~Has(user, {"password"})

\* The steps of one execute that can fail from outside: loading the
\* configuration, writing the credential database (after the mailbox map
\* is written), and the postmap and reload commands.
UserEnv == {"none", "load", "passwd", "reload"}

\* How far one execute gets: "load" (load_user_config returned False),
\* "directories" (create_user_directories caught an exception: a
\* subscript of None or a missing key), "passwd" (the mailbox map is
\* written and generate_dovecot_passwd raised), "reload" (a command
\* failed), "done".  A list has no key domains or test_users, so the maps
\* of a list are empty.
ExecuteStops(type, config, fails) ==
    IF type = "error" \/ fails = "load" THEN "load"
    ELSE IF type = "none" THEN "directories"
    ELSE IF type = "dict" /\ DirectoriesKeyError(config) THEN "directories"
    ELSE IF (type = "dict" /\ PasswdKeyError(config)) \/ fails = "passwd"
      THEN "passwd"
    ELSE IF fails = "reload" THEN "reload"
    ELSE "done"

\* Whether the step that stopped the execute logged a KeyError.
ExecuteKeyError(type, config, fails) ==
    /\ type = "dict"
    /\ \/ /\ ExecuteStops(type, config, fails) = "directories"
          /\ DirectoriesKeyError(config)
       \/ /\ ExecuteStops(type, config, fails) = "passwd"
          /\ PasswdKeyError(config)

\* One call of MailUserReloadStrategy.execute(config_path).
ReloadUsers(fails) ==
    LET stops == ExecuteStops(yaml_type, user_config, fails)
        loaded == IF yaml_type = "dict" THEN user_config ELSE NotRead IN
    /\ vmailbox' = IF stops \in {"load", "directories"} THEN vmailbox
                   ELSE generate_vmailbox_map(loaded)
    /\ dovecot_passwd' = IF stops \in {"load", "directories", "passwd"}
                           THEN dovecot_passwd
                         ELSE generate_dovecot_passwd(loaded)
    /\ user_result' = IF stops = "done" THEN "ok"
                      ELSE IF ExecuteKeyError(yaml_type, user_config, fails)
                        THEN "missing field"
                      ELSE "failed"
    /\ UNCHANGED <<yaml_type, user_config, user_valid>>

\* One call of validate_user_config(config_path).
ValidateUserConfig ==
    /\ user_valid' = IF validate_user_config(yaml_type, user_config)
                       THEN "accepted" ELSE "rejected"
    /\ user_valid' # user_valid
    /\ UNCHANGED <<yaml_type, user_config, vmailbox, dovecot_passwd, user_result>>

\* The sample configurations: one domain with up to MaxUsers of the sample
\* users, with or without a test user.
SampleDomain == "example.com"
SampleUsers ==
    { [username |-> "alice", password |-> "secret"],
      [username |-> "alice", password |-> "$6$salted", enabled |-> FALSE],
      [username |-> "bob", password |-> "pw", services |-> <<"files">>],
      [username |-> "alice@example.com", password |-> "hunter2",
       enabled |-> TRUE, services |-> <<"mail", "files">>] }

RECURSIVE ListsUpTo(_, _)
ListsUpTo(S, n) ==
    IF n = 0 THEN {<<>>}
    ELSE LET shorter == ListsUpTo(S, n - 1) IN
         shorter \cup {Append(l, x) : l \in shorter, x \in S}

TestUser == [username |-> "bob", domain |-> SampleDomain, password |-> "pw"]
DisabledTestUser ==
    [username |-> "carol", domain |-> SampleDomain, password |-> "pw",
     enabled |-> FALSE]

UserConfigs ==
    UNION { { [domains |-> <<[name |-> SampleDomain, users |-> users]>>],
              [domains |-> <<[name |-> SampleDomain, users |-> users]>>,
               test_users |-> <<TestUser>>],
              [domains |-> <<[name |-> SampleDomain, users |-> users]>>,
               test_users |-> <<DisabledTestUser>>] } :
            users \in ListsUpTo(SampleUsers, MaxUsers) }

\* Documents with a key missing: a domain without users, a domain user
\* without password, test users without domain or without password, and
\* a mapping without domains.
IncompleteConfigs ==
    { [domains |-> <<[name |-> SampleDomain]>>],
      [domains |-> <<[name |-> SampleDomain,
                      users |-> <<[username |-> "erin"]>>]>>],
      [domains |-> <<[name |-> SampleDomain, users |-> <<>>]>>,
       test_users |-> <<[username |-> "dave"]>>],
      [domains |-> <<[name |-> SampleDomain, users |-> <<>>]>>,
       test_users |-> <<[username |-> "dave", domain |-> SampleDomain]>>],
      [version |-> "1.0"] }

\* add_user: the configuration with the test user of the same address
\* removed and the new user appended, its password the result of
\* generate_password_hash.
AddedUser(username, password, domain_name) ==
    [username |-> username, password |-> generate_password_hash(password),
     domain |-> domain_name, quota |-> "100M", services |-> <<"mail">>,
     enabled |-> TRUE, email_confirmed |-> FALSE]

TestUsersKeyError(config) ==
    \E u \in 1..Len(Get(config, "test_users", <<>>)) :
        ~Has(config.test_users[u], {"domain", "username"})

WithUser(config, username, password, domain_name) ==
    LET email == IF ~Contains(username, "@")
                   THEN username \o "@" \o domain_name ELSE username
        Other(u) == u.username \o "@" \o u.domain # email
        kept == SelectSeq(Get(config, "test_users", <<>>), Other) IN
    [k \in DOMAIN config \cup {"test_users"} |->
        IF k = "test_users"
          THEN Append(kept, AddedUser(username, password, domain_name))
          ELSE config[k]]

\* One call of add_user(username, password, domain); io_ok is whether the
\* configuration file can be read and written.  The call changes nothing
\* when it raises: on a document that is a list or does not parse, and on
\* a test user without username or domain.  "yaml.safe_load(f) or {}"
\* makes {} of an empty file.
AddUser(username, password, domain_name, io_ok) ==
    LET config == IF yaml_type = "none" THEN EmptyDict ELSE user_config
        written == /\ io_ok /\ yaml_type \in {"dict", "none"}
                   /\ ~TestUsersKeyError(config) IN
    /\ user_config' = IF written
                        THEN WithUser(config, username, password, domain_name)
                        ELSE user_config
    /\ yaml_type' = IF written THEN "dict" ELSE yaml_type
    /\ user_valid' = IF written THEN "-" ELSE user_valid
    /\ UNCHANGED <<vmailbox, dovecot_passwd, user_result>>

AddNames == {"carol"}
AddPasswords == {"pw", "$6$salted"}

\* ------------------------------------------------- the shared strategy object
\* HotReloadUserEventHandler makes one MailUserReloadStrategy and every
\* delayed_reload thread calls execute on it.  Here execute is followed
\* method by method: load_user_config stores what it parsed in
\* self.user_config, and create_user_directories and the generate_*
\* methods read that attribute.  user_config is the content of users.yaml
\* (accepted by the validator), which an external writer replaces.
MaxReloads == 2     \* calls of execute in one behaviour

\* generate_valias_map: a line "alias@domain target" for every alias of an
\* enabled domain user.
generate_valias_map(config) ==
    Flatten([d \in 1..Len(Get(config, "domains", <<>>)) |->
        LET domain_config == config.domains[d]
            Keep(user) == IsEnabled(user) /\ Get(user, "aliases", <<>>) # <<>>
            users == SelectSeq(domain_config.users, Keep) IN
        Flatten([i \in 1..Len(users) |->
            [a \in 1..Len(users[i].aliases) |->
                users[i].aliases[a] \o "@" \o domain_config.name \o " "
                \o EmailOf(users[i], domain_config.name)]])])

\* line.strip(), for the blanks of a line
RECURSIVE Strip(_)
Strip(line) ==
    IF Len(line) > 0 /\ SubSeq(line, 1, 1) = " "
      THEN Strip(SubSeq(line, 2, Len(line)))
    ELSE IF Len(line) > 0 /\ SubSeq(line, Len(line), Len(line)) = " "
      THEN Strip(SubSeq(line, 1, Len(line) - 1))
    ELSE line

SystemInclude == "!include auth-system.conf.ext"
PasswdfileInclude == "!include auth-passwdfile.conf.ext"

\* configure_dovecot_auth on the lines of 10-auth.conf: the system include
\* is commented out and followed by the passwd-file include, a passwd-file
\* include that is commented out is put in force, other lines stay.
configure_dovecot_authAppending(lines) ==
    Flatten([i \in 1..Len(lines) |->
        IF Strip(lines[i]) = SystemInclude
          THEN <<"#" \o SystemInclude, PasswdfileInclude>>
        ELSE IF Strip(lines[i]) = "#" \o SystemInclude
          THEN <<lines[i], PasswdfileInclude>>
        ELSE <<lines[i]>>])
configure_dovecot_auth(lines) ==
    Flatten([i \in 1..Len(lines) |->
        IF Strip(lines[i]) = SystemInclude
          THEN <<"#" \o SystemInclude, PasswdfileInclude>>
        ELSE IF Strip(lines[i]) = "#" \o PasswdfileInclude
          THEN <<PasswdfileInclude>>
        ELSE <<lines[i]>>])

NotCalled == [pc |-> "idle", loaded |-> NotRead]

\* A delayed_reload thread calls execute(config_path).
CallExecute(r) ==
    /\ r = Len(execs) + 1 /\ r <= MaxReloads
    /\ execs' = Append(execs, [NotCalled EXCEPT !.pc = "load"])
    /\ UNCHANGED <<yaml_type, user_config, user_valid, vmailbox,
                   dovecot_passwd, user_result, valias, auth_conf, nrewrites,
                   self_user_config>>

\* load_user_config: self.user_config = yaml.safe_load(f); on an exception
\* the attribute keeps its value and execute returns False.
LoadUserConfig(r, io_ok) ==
    /\ r \in 1..Len(execs) /\ execs[r].pc = "load"
    /\ IF io_ok
         THEN /\ self_user_config' = user_config
              /\ execs' = [execs EXCEPT ![r] =
                              [pc |-> "directories", loaded |-> user_config]]
         ELSE /\ execs' = [execs EXCEPT ![r].pc = "failed"]
              /\ UNCHANGED self_user_config
    /\ user_result' = IF io_ok THEN user_result ELSE "failed"
    /\ UNCHANGED <<yaml_type, user_config, user_valid, vmailbox,
                   dovecot_passwd, valias, auth_conf, nrewrites>>

\* create_user_directories: the directories of the users of
\* self.user_config (not followed).
CreateUserDirectories(r) ==
    /\ r \in 1..Len(execs) /\ execs[r].pc = "directories"
    /\ execs' = [execs EXCEPT ![r].pc =
                    IF DirectoriesKeyError(self_user_config)
                      THEN "failed" ELSE "vmailbox"]
    /\ user_result' = IF DirectoriesKeyError(self_user_config)
                        THEN "missing field" ELSE user_result
    /\ UNCHANGED <<yaml_type, user_config, user_valid, vmailbox,
                   dovecot_passwd, valias, auth_conf, nrewrites, self_user_config>>

\* generate_service_configs: its four calls in turn, each on the attribute
\* as it is when the call is made.
GenerateVmailboxMap(r) ==
    /\ r \in 1..Len(execs) /\ execs[r].pc = "vmailbox"
    /\ vmailbox' = generate_vmailbox_map(self_user_config)
    /\ execs' = [execs EXCEPT ![r].pc = "valias"]
    /\ UNCHANGED <<yaml_type, user_config, user_valid, dovecot_passwd,
                   user_result, valias, auth_conf, nrewrites, self_user_config>>

GenerateValiasMap(r) ==
    /\ r \in 1..Len(execs) /\ execs[r].pc = "valias"
    /\ valias' = generate_valias_map(self_user_config)
    /\ execs' = [execs EXCEPT ![r].pc = "passwd"]
    /\ UNCHANGED <<yaml_type, user_config, user_valid, vmailbox,
                   dovecot_passwd, user_result, auth_conf, nrewrites, self_user_config>>

GenerateDovecotPasswd(r) ==
    /\ r \in 1..Len(execs) /\ execs[r].pc = "passwd"
    /\ IF PasswdKeyError(self_user_config)
         THEN /\ execs' = [execs EXCEPT ![r].pc = "failed"]
              /\ user_result' = "missing field"
              /\ UNCHANGED dovecot_passwd
         ELSE /\ dovecot_passwd' = generate_dovecot_passwd(self_user_config)
              /\ execs' = [execs EXCEPT ![r].pc = "auth"]
              /\ UNCHANGED user_result
    /\ UNCHANGED <<yaml_type, user_config, user_valid, vmailbox, valias,
                   auth_conf, nrewrites, self_user_config>>

\* configure_dovecot_auth; when 10-auth.conf cannot be read the method logs
\* the error and the file stays.
ConfigureDovecotAuth(r, io_ok) ==
    /\ r \in 1..Len(execs) /\ execs[r].pc = "auth"
    /\ auth_conf' = IF io_ok THEN configure_dovecot_auth(auth_conf)
                    ELSE auth_conf
    /\ nrewrites' = nrewrites + 1
    /\ execs' = [execs EXCEPT ![r].pc = "commands"]
    /\ UNCHANGED <<yaml_type, user_config, user_valid, vmailbox,
                   dovecot_passwd, user_result, valias, self_user_config>>

\* postmap of the two maps, postfix reload, doveadm reload, and the return
\* of execute.
RunCommands(r, ok) ==
    /\ r \in 1..Len(execs) /\ execs[r].pc = "commands"
    /\ execs' = [execs EXCEPT ![r].pc = IF ok THEN "done" ELSE "failed"]
    /\ user_result' = IF ok THEN "ok" ELSE "failed"
    /\ UNCHANGED <<yaml_type, user_config, user_valid, vmailbox,
                   dovecot_passwd, valias, auth_conf, nrewrites, self_user_config>>

\* An external writer replaces users.yaml.
WriteUsersYaml(config) ==
    /\ config # user_config
    /\ user_config' = config
    /\ UNCHANGED <<yaml_type, user_valid, vmailbox, dovecot_passwd,
                   user_result, valias, auth_conf, nrewrites, self_user_config, execs>>

\* The configurations written: one user, the same user with an alias, and
\* another password for the user together with a second user.
AliasUser ==
    [username |-> "alice", password |-> "secret", aliases |-> <<"postmaster">>]
SharedConfigs ==
    { [domains |-> <<[name |-> SampleDomain, users |-> users]>>] :
        users \in { <<[username |-> "alice", password |-> "secret"]>>,
                    <<AliasUser>>,
                    <<[username |-> "alice", password |-> "changed"],
                      [username |-> "bob", password |-> "pw"]>> } }

\* 10-auth.conf as shipped: the system include in force, the passwd-file
\* include commented out.
ShippedAuthConf ==
    <<"auth_mechanisms = plain login", SystemInclude, "#" \o PasswdfileInclude>>

\* One call of configure_dovecot_auth on its own, as generate_service_configs
\* makes it in every reload.
MaxRewrites == 2    \* calls of configure_dovecot_auth in one behaviour
MaxLines == 3       \* lines of a sample 10-auth.conf

RewriteAuthConf(io_ok) ==
    /\ nrewrites < MaxRewrites
    /\ nrewrites' = nrewrites + 1
    /\ auth_conf' = IF io_ok THEN configure_dovecot_auth(auth_conf)
                    ELSE auth_conf
    /\ UNCHANGED <<yaml_type, user_config, user_valid, vmailbox,
                   dovecot_passwd, user_result, valias, self_user_config,
                   execs>>

\* The lines of the sample files: the two includes in force and commented
\* out, the system include between blanks, and another setting.
AuthConfLines ==
    { SystemInclude, "#" \o SystemInclude, "  " \o SystemInclude \o " ",
      PasswdfileInclude, "#" \o PasswdfileInclude,
      "auth_mechanisms = plain login" }
AuthConfFiles == ListsUpTo(AuthConfLines, MaxLines)

\* -------------------------------------------------------------- web session
\* watch_certificates_with_reload and watch_user_config_with_reload from
\* the call to the watch loop, and for the service type apache the calls of
\* handle_certificate_change, one at a time, on the text of the changed
\* file.
MaxChanges == 2     \* calls of handle_certificate_change in one behaviour

HttpPort == 80
HttpsPort == 443
WebPorts == {HttpPort, HttpsPort}

Begin(label) == "-----BEGIN " \o label \o "-----"
End(label) == "-----END " \o label \o "-----"

\* 'marker in content', the content given as its lines.
IsSubstring(sub, s) ==
    \E i \in 1..(Len(s) - Len(sub) + 1) : SubSeq(s, i, i + Len(sub) - 1) = sub
InContent(marker, content) ==
    \E k \in 1..Len(content) : IsSubstring(marker, content[k])

\* validate_certificate: False for a missing file, False when open or read
\* raise, else the if / elif chain over the three boundary pairs.
validate_certificateBeginOnly(file, readable) ==
    IF ~file.exists THEN FALSE
    ELSE IF ~readable THEN FALSE
    ELSE IF InContent(Begin("CERTIFICATE"), file.lines) THEN TRUE
    ELSE IF InContent(Begin("PRIVATE KEY"), file.lines) THEN TRUE
    ELSE IF InContent(Begin("RSA PRIVATE KEY"), file.lines) THEN TRUE
    ELSE FALSE
validate_certificate(file, readable) ==
    IF ~file.exists THEN FALSE
    ELSE IF ~readable THEN FALSE
    ELSE IF /\ InContent(Begin("CERTIFICATE"), file.lines)
            /\ InContent(End("CERTIFICATE"), file.lines) THEN TRUE
    ELSE IF /\ InContent(Begin("PRIVATE KEY"), file.lines)
            /\ InContent(End("PRIVATE KEY"), file.lines) THEN TRUE
    ELSE IF /\ InContent(Begin("RSA PRIVATE KEY"), file.lines)
            /\ InContent(End("RSA PRIVATE KEY"), file.lines) THEN TRUE
    ELSE FALSE

\* backup_certificate: True unless the copy of an existing file raises.
backup_certificate(file, copy_ok) == ~file.exists \/ copy_ok

\* ApacheReloadStrategy.execute: apache2ctl configtest, and after a return
\* code of 0 apache2ctl graceful.  A command ends "ok" (return code 0),
\* "fail" (another return code) or "timeout" (subprocess.TimeoutExpired).
CommandResults == {"ok", "fail", "timeout"}
RunsGracefulAlways(configtest) == TRUE
RunsGraceful(configtest) == configtest = "ok"

ApacheCommands(run, env) ==
    <<[run |-> run, cmd |-> "configtest", result |-> env.configtest]>>
    \o IF RunsGraceful(env.configtest)
         THEN <<[run |-> run, cmd |-> "graceful", result |-> env.graceful]>>
         ELSE <<>>

ApacheExecuteResult(env) == env.configtest = "ok" /\ env.graceful = "ok"

\* ApacheReloadStrategy.health_check: http_ok and https_ok.
ApacheHealth(open) == test_port(open, HttpPort) /\ test_port(open, HttpsPort)

\* What the steps of one call meet: whether the file can be read and
\* copied, how the two commands end, which ports accept a connect.
WebEnv ==
    [readable : BOOLEAN, copy_ok : BOOLEAN, configtest : CommandResults,
     graceful : CommandResults, open : SUBSET WebPorts]

NoWebLog ==
    [run |-> 0, checked |-> [exists |-> FALSE, lines |-> <<>>],
     readable |-> FALSE, validated |-> FALSE, backed_up |-> "-",
     success |-> "-", healthy |-> "-", outcome |-> "-"]

\* One call of handle_certificate_change of the apache handler.
HandleCertificateChange(env) ==
    /\ watched = "certificates" /\ watcher = "watching"
    /\ nchanges < MaxChanges
    /\ nchanges' = nchanges + 1
    /\ LET run == nchanges + 1
           valid == validate_certificate(cert_file, env.readable)
           backed == backup_certificate(cert_file, env.copy_ok)
           success == ApacheExecuteResult(env)
           healthy == ApacheHealth(env.open) IN
       IF ~valid
         THEN /\ web_log' = [NoWebLog EXCEPT !.run = run, !.checked = cert_file,
                                !.readable = env.readable, !.outcome = "Invalid"]
              /\ UNCHANGED commands
         ELSE /\ commands' = commands \o ApacheCommands(run, env)
              /\ web_log' =
                   [run |-> run, checked |-> cert_file, readable |-> env.readable,
                    validated |-> TRUE,
                    backed_up |-> IF backed THEN "ok" ELSE "fail",
                    success |-> IF success THEN "ok" ELSE "fail",
                    healthy |-> IF ~success THEN "-"
                                ELSE IF healthy THEN "ok" ELSE "fail",
                    outcome |-> Outcome(success, healthy)]
    /\ UNCHANGED <<watched, root_exists, watcher, errors, cert_file>>

\* An external writer replaces the certificate file.
WriteCertificate(file) ==
    /\ watched = "certificates" /\ watcher = "watching"
    /\ nchanges < MaxChanges
    /\ file # cert_file
    /\ cert_file' = file
    /\ UNCHANGED <<watched, root_exists, watcher, errors, commands, web_log,
                   nchanges>>

\* The watch function up to its loop.  find_certificates writes "Path does
\* not exist" for a missing root and returns the empty list; the user
\* watcher globs the path and finds nothing.  Both then schedule the
\* handler on the path and start the observer, and enter the loop when
\* the start returns.  For a missing root the watchdog observer either
\* raises from start, which ends the program with a traceback, or returns.
StartWatch(raises) ==
    /\ watcher = "init"
    /\ errors' = errors
                    \cup (IF watched = "certificates" /\ ~root_exists
                            THEN {"path does not exist"} ELSE {})
                    \cup (IF ~root_exists /\ raises THEN {"traceback"} ELSE {})
    /\ watcher' = IF ~root_exists /\ raises THEN "raised" ELSE "watching"
    /\ UNCHANGED <<watched, root_exists, cert_file, commands, web_log, nchanges>>

\* KeyboardInterrupt in the loop: observer.stop() and the return.
Interrupt ==
    /\ watcher = "watching"
    /\ watcher' = "stopped"
    /\ UNCHANGED <<watched, root_exists, errors, cert_file, commands, web_log,
                   nchanges>>

\* The sample files: the three recognized pairs, a pair inside longer
\* lines, a key followed by a certificate, an unrecognized label, a
\* truncated file, a BEGIN and an END of different labels, an empty file,
\* and no file.
PemFile(lines) == [exists |-> TRUE, lines |-> lines]
NoFile == [exists |-> FALSE, lines |-> <<>>]
CertFiles ==
    { PemFile(<<Begin("CERTIFICATE"), "MIIB", End("CERTIFICATE")>>),
      PemFile(<<Begin("PRIVATE KEY"), "MIIE", End("PRIVATE KEY")>>),
      PemFile(<<Begin("RSA PRIVATE KEY"), "MIIC", End("RSA PRIVATE KEY")>>),
      PemFile(<<"subject=CN " \o Begin("CERTIFICATE"), "MIIB",
                End("CERTIFICATE") \o " end">>),
      PemFile(<<Begin("PRIVATE KEY"), "MIIE", End("PRIVATE KEY"),
                Begin("CERTIFICATE"), "MIIB", End("CERTIFICATE")>>),
      PemFile(<<Begin("EC PRIVATE KEY"), "MHcC", End("EC PRIVATE KEY")>>),
      PemFile(<<Begin("CERTIFICATE"), "MIIB">>),
      PemFile(<<Begin("CERTIFICATE"), "MIIB", End("PRIVATE KEY")>>),
      PemFile(<<>>),
      NoFile }

\* ------------------------------------------------------------- registration
\* The CGI scripts register.py, confirm.py and auth.py on users.yaml
\* (lib/user_db.py) and the directory of pending registrations.  A call of
\* a script is one step.
MaxTime == 2            \* hours that pass in one behaviour
TokenLifetime == 1      \* timedelta(hours=1)
MinPasswordLength == 8  \* validate_registration
MinLoginLength == 6     \* auth_main
MailDomain == "lab.sethlakowske.com"

\* email.split('@')[0] and email.split('@')[1]
AtSign(email) ==
    CHOOSE i \in 1..Len(email) :
        /\ SubSeq(email, i, i) = "@"
        /\ \A j \in 1..(i - 1) : SubSeq(email, j, j) # "@"
LocalPart(email) == SubSeq(email, 1, AtSign(email) - 1)
DomainPart(email) == SubSeq(email, AtSign(email) + 1, Len(email))

\* crypt.crypt(password, setting): the scheme prefix and salt of the
\* setting, then the digest.  hash_password takes a fresh salt.
crypt(password, setting) == "$6$" \o "salt$" \o "digest-of-" \o password
hash_password(password) == crypt(password, "$6$salt$")

verify_password(password, stored_hash) ==
    IF StartsWith(stored_hash, "$6$")
      THEN crypt(password, stored_hash) = stored_hash
      ELSE password = stored_hash

\* The address of a user of a domain of users.yaml.
UserEmail(db, d, u) ==
    LET user == db[d].users[u] IN
    IF Contains(Get(user, "username", ""), "@") THEN user.username
    ELSE user.username \o "@" \o db[d].name

\* The places <<domain, user>> of the users with the address, in the order
\* in which the loops over the domains and their users meet them.
Matches(db, email) ==
    LET places == Flatten([d \in 1..Len(db) |->
                      [u \in 1..Len(db[d].users) |-> <<d, u>>]])
        Same(place) == UserEmail(db, place[1], place[2]) = email IN
    SelectSeq(places, Same)

\* UserDatabase.authenticate: the first user with the address decides.
authenticate(db, email, password) ==
    LET found == Matches(db, email) IN
    IF found = <<>> THEN FALSE
    ELSE LET user == db[found[1][1]].users[found[1][2]] IN
         IF ~Get(user, "enabled", TRUE) THEN FALSE
         ELSE IF ~Get(user, "email_confirmed", FALSE) THEN FALSE
         ELSE verify_password(password, Get(user, "password", ""))

user_exists(db, email) == Matches(db, email) # <<>>

\* UserDatabase.add_user: the user is appended to the first domain of the
\* name, which is appended when there is none.
NewUser(user_data) ==
    [username |-> LocalPart(user_data.email),
     password |-> Get(user_data, "password", ""),
     aliases |-> <<>>,
     quota |-> Get(user_data, "quota", "500M"),
     enabled |-> Get(user_data, "enabled", TRUE),
     email_confirmed |-> Get(user_data, "email_confirmed", FALSE),
     services |-> Get(user_data, "services", <<"mail">>)]

add_user(db, user_data) ==
    LET named == {d \in 1..Len(db) : db[d].name = user_data.domain}
        with_domain == IF named = {}
                         THEN Append(db, [name |-> user_data.domain, users |-> <<>>])
                         ELSE db
        d == IF named = {} THEN Len(with_domain)
             ELSE CHOOSE x \in named : \A y \in named : x <= y IN
    [with_domain EXCEPT ![d].users = Append(@, NewUser(user_data))]

\* UserDatabase.enable_user: email_confirmed of the first user with the
\* address becomes True.
enable_user(db, email) ==
    LET found == Matches(db, email) IN
    IF found = <<>> THEN db
    ELSE [db EXCEPT ![found[1][1]].users[found[1][2]].email_confirmed = TRUE]

\* What register.py keeps of a registration: user_data of the pending
\* file without its key password_hash.
UserData(email) ==
    [username |-> LocalPart(email), email |-> email,
     domain |-> DomainPart(email), quota |-> "500M",
     services |-> <<"mail", "webdav">>]

WithFields(d, extra) ==
    [k \in DOMAIN d \cup DOMAIN extra |-> IF k \in DOMAIN extra THEN extra[k] ELSE d[k]]

\* register.py main with a well-formed username and email and the
\* password repeated: the password length is validated, a known address is
\* refused, the pending registration is saved under a fresh token and the
\* user is added enabled and unconfirmed.
Register(email, password) ==
    /\ IF Len(password) < MinPasswordLength
         THEN /\ response' = [script |-> "register", status |-> "invalid input"]
              /\ UNCHANGED <<users_db, pending, ntokens, registrations>>
       ELSE IF user_exists(users_db, email)
         THEN /\ response' = [script |-> "register", status |-> "duplicate"]
              /\ UNCHANGED <<users_db, pending, ntokens, registrations>>
       ELSE LET token == ntokens + 1
                password_hash == hash_password(password) IN
            /\ ntokens' = token
            /\ pending' = DictSet(pending, token,
                    [expires_at |-> clock + TokenLifetime,
                     user_data |-> WithFields(UserData(email),
                                      [password_hash |-> password_hash])])
            /\ users_db' = add_user(users_db,
                    WithFields(UserData(email),
                        [enabled |-> TRUE, email_confirmed |-> FALSE,
                         password |-> password_hash]))
            /\ registrations' = DictSet(registrations, token,
                    [email |-> email, password |-> password,
                     state |-> "submitted"])
            /\ response' = [script |-> "register", status |-> "submitted"]
    /\ response' # response \/ users_db' # users_db
    /\ UNCHANGED clock

\* confirm.py confirm_main: an unknown token is refused; an expired one
\* is removed and refused; for an address of the mail domain the user
\* that register.py added is confirmed with enable_user, for any other
\* address add_user is called with the pending user_data, its password
\* set and enabled True; the pending file is removed.
Confirm(token) ==
    /\ IF token \notin DOMAIN pending
         THEN /\ response' = [script |-> "confirm", status |-> "invalid token"]
              /\ UNCHANGED <<users_db, pending, registrations>>
       ELSE IF clock > pending[token].expires_at
         THEN /\ response' = [script |-> "confirm", status |-> "expired"]
              /\ pending' = DictDel(pending, token)
              /\ UNCHANGED <<users_db, registrations>>
       ELSE LET user_data == pending[token].user_data
                user_email == user_data.email IN
            IF DomainPart(user_email) = MailDomain /\ ~user_exists(users_db, user_email)
              THEN /\ response' = [script |-> "confirm", status |-> "error"]
                   /\ UNCHANGED <<users_db, pending, registrations>>
              ELSE /\ users_db' =
                        IF DomainPart(user_email) = MailDomain
                          THEN enable_user(users_db, user_email)
                          ELSE add_user(users_db,
                                  WithFields(UserData(user_email),
                                      [password |-> user_data.password_hash,
                                       enabled |-> TRUE]))
                   /\ pending' = DictDel(pending, token)
                   /\ registrations' = [registrations EXCEPT ![token].state = "confirmed"]
                   /\ response' = [script |-> "confirm", status |-> "confirmed"]
    /\ response' # response \/ users_db' # users_db
    /\ UNCHANGED <<clock, ntokens>>

\* auth.py auth_main with the address as username: a password of fewer
\* than six characters is refused, else authenticate decides.
Login(email, password) ==
    /\ response' =
          IF Len(password) < MinLoginLength
            THEN [script |-> "auth", status |-> "invalid input"]
          ELSE IF authenticate(users_db, email, password)
            THEN [script |-> "auth", status |-> "login successful"]
          ELSE [script |-> "auth", status |-> "authentication failed"]
    /\ response' # response
    /\ UNCHANGED <<users_db, pending, clock, ntokens, registrations>>

\* An hour passes.
Hour ==
    /\ clock < MaxTime
    /\ clock' = clock + 1
    /\ UNCHANGED <<users_db, pending, ntokens, response, registrations>>

\* The sample addresses, of the mail domain and of another domain, and
\* the sample passwords, one of them too short.
Emails == {"ann@lab.sethlakowske.com", "bob@example.org"}
FormPasswords == {"correct horse", "hunter2!", "short"}

\* ------------------------------------------------------------ specification
NoUpdate ==
    [called |-> FALSE, key |-> "", written |-> FALSE, check |-> "-",
     rndc |-> FALSE, returned |-> FALSE]
NoConfig == [domains |-> <<>>, test_users |-> <<>>]

\* Where execute is followed as one step, the strategy object is not
\* followed through its attribute.
NoStrategy ==
    /\ valias = <<>>
    /\ auth_conf = <<>>
    /\ nrewrites = 0
    /\ self_user_config = NotRead
    /\ execs = <<>>

\* The state in which a watch session starts.
SessionInit ==
    /\ handler \in Handlers
    /\ domain \in (IF handler = "mail" THEN {Domain1, ""} ELSE {""})
    /\ files = [p \in WatchedFiles(handler) |-> "absent"]
    /\ pending_reloads = EmptyDict
    /\ threads = <<>>
    /\ installed = [t \in Targets(handler) |-> "absent"]
    /\ backups = EmptyDict
    /\ log = NoEntry
    /\ nevents = 0
    /\ nactions = [k \in Keys(handler) |-> 0]
    /\ fired = {}
    /\ late = {}
    /\ straggler = FALSE
    /\ issued = <<>>

\* In a watch session the zone file and the user configuration are followed
\* through installed only.
NoZone ==
    /\ zone_file = <<>>
    /\ zone_backup = <<>>
    /\ today = ""
    /\ zone_result = NoUpdate
    /\ nupdates = 0

NoUsers ==
    /\ yaml_type = "dict"
    /\ user_config = NoConfig
    /\ user_valid = "-"
    /\ vmailbox = <<>>
    /\ dovecot_passwd = <<>>
    /\ user_result = "-"
    /\ NoStrategy

\* In the other specifications the watcher has started on an existing root.
NoWeb ==
    /\ watched = "certificates"
    /\ root_exists = TRUE
    /\ watcher = "watching"
    /\ errors = {}
    /\ cert_file = NoFile
    /\ commands = <<>>
    /\ web_log = NoWebLog
    /\ nchanges = 0

\* The rate limiter of the password reset (lib/rate_limit.py), on the file
\* of one address.  The time is in hours.
MaxAttempts == 3    \* limits['reset']['max_attempts']
Window == 1         \* limits['reset']['window'], timedelta(hours=1)
Lockout == 1        \* limits['reset']['lockout'], timedelta(hours=1)
MaxRecords == 6     \* attempts in the file at one time

\* No file: storage_file.exists() is False.
NoRateFile ==
    [exists |-> FALSE, attempts |-> <<>>, locked |-> FALSE, lockout_until |-> 0]

NoLimiter ==
    /\ rate_file = NoRateFile
    /\ checked = "-"

\* The attempts of the list made after window_start.
CleanOld(attempts, window_start) ==
    SelectSeq(attempts, LAMBDA attempt : attempt > window_start)

\* check_limit on the data of the file at the time now: what it returns
\* and the file it leaves.  The reset of an expired lockout is made on the
\* loaded data only; the file is written when a lockout is set.
check_limit(data, now) ==
    IF ~data.exists THEN [returned |-> TRUE, file |-> data]
    ELSE IF data.locked /\ now < data.lockout_until
      THEN [returned |-> FALSE, file |-> data]
    ELSE
      LET loaded == IF data.locked THEN <<>> ELSE data.attempts
          attempts == CleanOld(loaded, now - Window) IN
      IF Len(attempts) >= MaxAttempts
        THEN [returned |-> FALSE,
              file |-> [exists |-> TRUE, attempts |-> attempts,
                        locked |-> TRUE, lockout_until |-> now + Lockout]]
        ELSE [returned |-> TRUE, file |-> data]

\* record_attempt: the time is appended to the attempts of the file, the
\* other keys of the file stay.
record_attempt(data, now) ==
    [data EXCEPT !.exists = TRUE, !.attempts = Append(data.attempts, now)]

CheckLimit ==
    /\ checked' = (IF check_limit(rate_file, clock).returned THEN "True"
                   ELSE "False")
    /\ rate_file' = check_limit(rate_file, clock).file
    /\ UNCHANGED <<users_db, pending, clock, ntokens, response, registrations>>

RecordAttempt ==
    /\ Len(rate_file.attempts) < MaxRecords
    /\ rate_file' = record_attempt(rate_file, clock)
    /\ UNCHANGED <<users_db, pending, clock, ntokens, response, registrations,
                   checked>>

\* Outside the registration no CGI script runs.
NoAuth ==
    /\ users_db = <<>>
    /\ pending = EmptyDict
    /\ clock = 0
    /\ ntokens = 0
    /\ response = [script |-> "-", status |-> "-"]
    /\ registrations = EmptyDict
    /\ NoLimiter

Init == SessionInit /\ NoZone /\ NoUsers /\ NoWeb /\ NoAuth

Next ==
    \/ /\ \E path \in WatchedFiles(handler), content \in {"good", "bad"} :
            OnFileEvent(path, content)
       /\ UNCHANGED <<zone_vars, user_vars, web_vars, auth_vars>>
    \/ /\ \E src \in WatchedFiles(handler) \cup {TempFile},
              dest \in WatchedFiles(handler), content \in {"good", "bad"} :
            OnMoved(src, dest, content)
       /\ UNCHANGED <<zone_vars, user_vars, web_vars, auth_vars>>
    \/ (\E i \in 1..Len(threads) : Fire(i)) /\ UNCHANGED <<zone_vars, user_vars, web_vars, auth_vars>>
    \/ (\E i \in 1..Len(threads) : Delete(i)) /\ UNCHANGED <<zone_vars, user_vars, web_vars, auth_vars>>
    \/ (\E i \in 1..Len(threads) : Validate(i)) /\ UNCHANGED <<zone_vars, user_vars, web_vars, auth_vars>>
    \/ (\E i \in 1..Len(threads) : Backup(i)) /\ UNCHANGED <<zone_vars, user_vars, web_vars, auth_vars>>
    \/ (\E i \in 1..Len(threads) : Execute(i)) /\ UNCHANGED <<zone_vars, user_vars, web_vars, auth_vars>>
    \/ (\E i \in 1..Len(threads) : HealthCheck(i)) /\ UNCHANGED <<zone_vars, user_vars, web_vars, auth_vars>>
    \/ Tick /\ UNCHANGED <<zone_vars, user_vars, web_vars, auth_vars>>

Spec == Init /\ [][Next]_vars

\* The steps of the delayed_reload threads up to the call of the handler.
\* time.sleep returns after the debounce time and the interpreter keeps
\* switching between the threads that can run, so a step of these that
\* stays possible is taken.
TimePasses == Tick /\ UNCHANGED <<zone_vars, user_vars, web_vars, auth_vars>>
TimerFires ==
    /\ \E i \in 1..Len(threads) : Fire(i)
    /\ UNCHANGED <<zone_vars, user_vars, web_vars, auth_vars>>
TimerDeletes ==
    /\ \E i \in 1..Len(threads) : Delete(i)
    /\ UNCHANGED <<zone_vars, user_vars, web_vars, auth_vars>>

SpecLive ==
    /\ Init /\ [][Next]_vars
    /\ WF_vars(TimePasses) /\ WF_vars(TimerFires) /\ WF_vars(TimerDeletes)

\* The steps of a handle_* call.  Each stage returns: the commands of the
\* certificate and user strategies run under a timeout, the port probes
\* under a socket timeout, and named-checkzone and rndc end by themselves;
\* so a call that has started goes on to its next stage.
ReloadRuns ==
    /\ \E i \in 1..Len(threads) :
          Validate(i) \/ Backup(i) \/ Execute(i) \/ HealthCheck(i)
    /\ UNCHANGED <<zone_vars, user_vars, web_vars, auth_vars>>

SpecRun == SpecLive /\ WF_vars(ReloadRuns)

\* The zone patcher alone: a zone file, a day, and calls of
\* update_zone_with_dkim with sample keys.
ZoneInit ==
    /\ SessionInit /\ handler = "dkim"
    /\ NoUsers /\ NoWeb /\ NoAuth
    /\ zone_file \in ZoneFiles
    /\ zone_backup = <<>>
    /\ today \in {Dates[i] : i \in 1..Len(Dates)}
    /\ zone_result = NoUpdate
    /\ nupdates = 0

ZoneNext ==
    \/ /\ \E public_key \in PublicKeys, env \in ZoneEnv :
            update_zone_with_dkim(public_key, env)
       /\ UNCHANGED <<session_vars, user_vars, web_vars, auth_vars>>
    \/ NextDay /\ UNCHANGED <<session_vars, user_vars, web_vars, auth_vars>>

SpecZone == ZoneInit /\ [][ZoneNext]_vars

\* The user provisioning alone: a configuration and calls of execute.
UsersInit ==
    /\ SessionInit /\ handler = "user"
    /\ NoZone /\ NoWeb /\ NoAuth
    /\ yaml_type \in YamlTypes
    /\ user_config \in (IF yaml_type = "dict"
                           THEN UserConfigs \cup IncompleteConfigs
                           ELSE {NotRead})
    /\ user_valid = "-"
    /\ vmailbox = <<>>
    /\ dovecot_passwd = <<>>
    /\ user_result = "-"
    /\ NoStrategy

UsersNext ==
    \/ /\ \E fails \in UserEnv : ReloadUsers(fails)
       /\ UNCHANGED <<session_vars, zone_vars, web_vars, auth_vars, strategy_vars>>
    \/ /\ ValidateUserConfig
       /\ UNCHANGED <<session_vars, zone_vars, web_vars, auth_vars, strategy_vars>>
    \/ /\ \E username \in AddNames, password \in AddPasswords,
              io_ok \in BOOLEAN :
            AddUser(username, password, SampleDomain, io_ok)
       /\ UNCHANGED <<session_vars, zone_vars, web_vars, auth_vars, strategy_vars>>

SpecUsers == UsersInit /\ [][UsersNext]_vars

\* The strategy object of one user watch session: users.yaml is rewritten
\* and up to MaxReloads calls of execute run on the object, a new call
\* starting whatever the earlier ones are doing.
SharedInit ==
    /\ SessionInit /\ handler = "user"
    /\ NoZone /\ NoWeb /\ NoAuth
    /\ yaml_type = "dict"
    /\ user_config \in SharedConfigs
    /\ user_valid = "accepted"
    /\ vmailbox = <<>>
    /\ dovecot_passwd = <<>>
    /\ user_result = "-"
    /\ valias = <<>>
    /\ auth_conf = ShippedAuthConf
    /\ nrewrites = 0
    /\ self_user_config = NotRead
    /\ execs = <<>>

SharedNext ==
    \/ /\ \E config \in SharedConfigs : WriteUsersYaml(config)
       /\ UNCHANGED <<session_vars, zone_vars, web_vars, auth_vars>>
    \/ /\ \E r \in 1..MaxReloads : CallExecute(r)
       /\ UNCHANGED <<session_vars, zone_vars, web_vars, auth_vars>>
    \/ /\ \E r \in 1..Len(execs), io_ok \in BOOLEAN : LoadUserConfig(r, io_ok)
       /\ UNCHANGED <<session_vars, zone_vars, web_vars, auth_vars>>
    \/ /\ \E r \in 1..Len(execs) : CreateUserDirectories(r)
       /\ UNCHANGED <<session_vars, zone_vars, web_vars, auth_vars>>
    \/ /\ \E r \in 1..Len(execs) : GenerateVmailboxMap(r)
       /\ UNCHANGED <<session_vars, zone_vars, web_vars, auth_vars>>
    \/ /\ \E r \in 1..Len(execs) : GenerateValiasMap(r)
       /\ UNCHANGED <<session_vars, zone_vars, web_vars, auth_vars>>
    \/ /\ \E r \in 1..Len(execs) : GenerateDovecotPasswd(r)
       /\ UNCHANGED <<session_vars, zone_vars, web_vars, auth_vars>>
    \/ /\ \E r \in 1..Len(execs), io_ok \in BOOLEAN :
            ConfigureDovecotAuth(r, io_ok)
       /\ UNCHANGED <<session_vars, zone_vars, web_vars, auth_vars>>
    \/ /\ \E r \in 1..Len(execs), ok \in BOOLEAN : RunCommands(r, ok)
       /\ UNCHANGED <<session_vars, zone_vars, web_vars, auth_vars>>

SpecShared == SharedInit /\ [][SharedNext]_vars

\* The rewrite of 10-auth.conf alone, on every sample file.
AuthConfInit ==
    /\ SessionInit /\ handler = "user"
    /\ NoZone /\ NoWeb /\ NoAuth
    /\ yaml_type = "dict"
    /\ user_config = NoConfig
    /\ user_valid = "-"
    /\ vmailbox = <<>>
    /\ dovecot_passwd = <<>>
    /\ user_result = "-"
    /\ valias = <<>>
    /\ auth_conf \in AuthConfFiles
    /\ nrewrites = 0
    /\ self_user_config = NotRead
    /\ execs = <<>>

AuthConfNext ==
    /\ \E io_ok \in BOOLEAN : RewriteAuthConf(io_ok)
    /\ UNCHANGED <<session_vars, zone_vars, web_vars, auth_vars>>

SpecAuthConf == AuthConfInit /\ [][AuthConfNext]_vars

\* A web session: the start of a watcher on a root that exists or not, and
\* for the certificate watcher of the service type apache the changes of
\* one certificate file and their handling.
WebInit ==
    /\ SessionInit /\ handler = "mail"
    /\ NoZone /\ NoUsers /\ NoAuth
    /\ watched \in {"certificates", "users"}
    /\ root_exists \in BOOLEAN
    /\ watcher = "init"
    /\ errors = {}
    /\ cert_file \in (IF watched = "certificates" /\ root_exists
                        THEN CertFiles ELSE {NoFile})
    /\ commands = <<>>
    /\ web_log = NoWebLog
    /\ nchanges = 0

WebNext ==
    \/ /\ \E raises \in BOOLEAN : StartWatch(raises)
       /\ UNCHANGED <<session_vars, zone_vars, user_vars, auth_vars>>
    \/ /\ \E file \in CertFiles : WriteCertificate(file)
       /\ UNCHANGED <<session_vars, zone_vars, user_vars, auth_vars>>
    \/ /\ \E env \in WebEnv : HandleCertificateChange(env)
       /\ UNCHANGED <<session_vars, zone_vars, user_vars, auth_vars>>
    \/ Interrupt /\ UNCHANGED <<session_vars, zone_vars, user_vars, auth_vars>>

SpecWeb == WebInit /\ [][WebNext]_vars

\* The registration: calls of the three scripts and the passing of time,
\* from a portal without users.
AuthInit ==
    /\ SessionInit /\ handler = "user"
    /\ NoZone /\ NoUsers /\ NoWeb /\ NoAuth

AuthNext ==
    \/ /\ \E email \in Emails, password \in FormPasswords : Register(email, password)
       /\ UNCHANGED <<session_vars, zone_vars, user_vars, web_vars, limiter_vars>>
    \/ /\ \E token \in 0..ntokens : Confirm(token)
       /\ UNCHANGED <<session_vars, zone_vars, user_vars, web_vars, limiter_vars>>
    \/ /\ \E email \in Emails, password \in FormPasswords : Login(email, password)
       /\ UNCHANGED <<session_vars, zone_vars, user_vars, web_vars, limiter_vars>>
    \/ Hour /\ UNCHANGED <<session_vars, zone_vars, user_vars, web_vars,
                            limiter_vars>>

SpecAuth == AuthInit /\ [][AuthNext]_vars

\* The rate limiter of one address: calls of check_limit and
\* record_attempt in any order while the hours pass.
LimiterInit == AuthInit

LimiterNext ==
    \/ CheckLimit /\ UNCHANGED <<session_vars, zone_vars, user_vars, web_vars>>
    \/ RecordAttempt /\ UNCHANGED <<session_vars, zone_vars, user_vars, web_vars>>
    \/ Hour /\ UNCHANGED <<session_vars, zone_vars, user_vars, web_vars,
                            limiter_vars>>

SpecLimiter == LimiterInit /\ [][LimiterNext]_vars


\* ------------------------------------------------------------------ claims
ThreadIds == 1..Len(threads)
ActionPcs == {"validate", "backup", "execute", "health"}
SleepingTimers(k) == {i \in ThreadIds : threads[i].key = k /\ threads[i].pc = "sleep"}
RunningActions(k) == {i \in ThreadIds : threads[i].key = k /\ threads[i].pc \in ActionPcs}
LiveThreads(k) == {i \in ThreadIds : threads[i].key = k}

\* C1: when every event on a key was delivered inside one debounce window,
\* that is before a timer of the key fired (no timer fires before its
\* DebounceTime seconds are over), at most one reload action has been
\* started for the key, and exactly one once its timers have all ended.
C1_OneReloadPerWindow ==
    \A k \in Keys(handler) :
        k \notin late =>
            /\ nactions[k] <= 1
            /\ (k \in fired /\ LiveThreads(k) = {}) => nactions[k] = 1

\* C1 witness: the two DKIM key files of a domain written inside one window,
\* both timers ended, one reload run.
C1_Witness ==
    \E k \in Keys(handler) :
        /\ handler = "dkim" /\ nevents = 2
        /\ k \notin late /\ k \in fired /\ LiveThreads(k) = {}
        /\ nactions[k] = 1

\* C2: in every handler a key has at most one started, not yet fired timer.
C2_OnePendingTimerPerKey ==
    \A k \in Keys(handler) : Cardinality(SleepingTimers(k)) <= 1

C4_ScheduleOnPendingIsNoOp ==
    [][\A path \in WatchedFiles(handler), content \in {"good", "bad"} :
          ( /\ OnFileEvent(path, content)
            /\ Schedules(handler, path)
            /\ SleepingTimers(ReloadKey(handler, path)) # {} )
          => UNCHANGED <<pending_reloads, threads>>]_vars


\* C5: the step in which a reload action starts is a step of a timer thread
\* that removes the key's pending record, and every removal of a pending
\* record starts exactly one action; a step of the event-delivery thread
\* starts no action and moves no running action, and running actions never
\* keep an event from being delivered.
C5_FireRemovesThenRunsOnce ==
    [][\A k \in Keys(handler) :
          LET removed == k \in DOMAIN pending_reloads /\ k \notin DOMAIN pending_reloads'
              started == nactions'[k] - nactions[k] IN
          /\ started \in {0, 1}
          /\ removed <=> started = 1
          /\ started = 1 =>
                /\ nevents' = nevents
                /\ \E i \in ThreadIds :
                      /\ threads[i].key = k /\ threads[i].pc = "del"
                      /\ threads' = [threads EXCEPT ![i].pc = "validate"]
          /\ nevents' # nevents =>
                \A i \in ThreadIds : threads'[i] = threads[i]
          /\ (RunningActions(k) # {} /\ nevents < MaxEvents) =>
                \A path \in WatchedFiles(handler) : ENABLED OnFileEvent(path, "good")
      ]_vars

\* C5 witness: a timer has fired, the record is gone, the action it started
\* is running and a further event can be delivered.
C5_Witness ==
    \E k \in Keys(handler) :
        /\ nactions[k] = 1 /\ RunningActions(k) # {}
        /\ k \notin DOMAIN pending_reloads
        /\ nevents < MaxEvents

\* C6: in the mail handler, when fullchain.pem and privkey.pem of the domain
\* are each written once and both inside the debounce window, one reload
\* action is executed in all, and while it runs both files are present.
C6_OneMailReloadForCertPair ==
    ( /\ handler = "mail" /\ domain = Domain1 /\ nevents = 2 /\ ~straggler
      /\ files[Fullchain] # "absent" /\ files[Privkey] # "absent" )
    => /\ nactions[Fullchain] + nactions[Privkey] <= 1
       /\ \A i \in ThreadIds : threads[i].pc \in ActionPcs =>
             (files[Fullchain] # "absent" /\ files[Privkey] # "absent")

\* C7: a reload whose validation failed goes no further: no backup, execute
\* or health check stage is entered, and its outcome records none of them.
C7_ValidationFailureAborts ==
    /\ \A i \in ThreadIds :
          threads[i].pc \in {"backup", "execute", "health"} =>
              threads[i].validated = "ok"
    /\ log.validated = "fail" =>
          (log.backed_up = "-" /\ log.success = "-" /\ log.healthy = "-")

C7_Witness == log.validated = "fail" /\ log.outcome = "Invalid"

\* C8: every reload of the certificate and user handlers whose validation
\* passed has run execute by the time it ends, also when its backup failed.
C8_BackupFailureDoesNotBlock ==
    handler # "dkim" =>
        /\ log.validated = "ok" => log.success \in {"ok", "fail"}
        /\ \A i \in ThreadIds :
              (threads[i].validated = "ok" /\ threads[i].backed_up # "-") =>
                  threads[i].pc \in {"execute", "health"}

C8_Witness ==
    /\ handler # "dkim"
    /\ log.validated = "ok" /\ log.backed_up = "fail" /\ log.success = "ok"

\* C9: a reload whose execute failed never enters the health check and ends
\* as Failed.
C9_ExecuteFailureSkipsHealth ==
    /\ \A i \in ThreadIds : threads[i].pc = "health" => threads[i].success = "ok"
    /\ log.success = "fail" => (log.healthy = "-" /\ log.outcome = "Failed")

C9_Witness ==
    handler # "dkim" /\ log.success = "fail" /\ log.outcome = "Failed"

\* C10: the step of a health check that fails ends the reload as Failed and
\* leaves the service files written by execute, the backups and the watched
\* files as they were.
C10_HealthFailureRestoresNothing ==
    [][\A i \in ThreadIds :
          (threads[i].pc = "health" /\ HealthCheck(i) /\ log'.healthy = "fail")
          => /\ log'.outcome = "Failed"
             /\ installed' = installed
             /\ backups' = backups
             /\ files' = files
      ]_vars

\* C10 witness: a reload ended with a failed health check after a
\* successful execute, and what execute installed is still there.
C10_Witness ==
    /\ log.success = "ok" /\ log.healthy = "fail" /\ log.outcome = "Failed"
    /\ \A t \in Targets(handler) : installed[t] # "absent"

\* The outcomes of a reload that did not complete.
Failures == {"Invalid", "Failed"}
TimerPcs == {"sleep", "del"}
StepOf(i) ==
    Fire(i) \/ Delete(i) \/ Validate(i) \/ Backup(i) \/ Execute(i) \/ HealthCheck(i)

\* C11: a failed reload stops nothing.  A pending record always has a live
\* timer that will run its action; and once the log shows a failed reload,
\* events are still delivered, an event for a key without a pending record
\* (the key of the failed reload or another one) stores the record and
\* starts a timer as in a fresh session, and every live thread can still
\* take its next step.
C11_FailureNeverStopsHandling ==
    [][ /\ \A k \in DOMAIN pending_reloads :
              \E i \in ThreadIds : threads[i].key = k /\ threads[i].pc \in TimerPcs
        /\ log.outcome \in Failures =>
              /\ nevents < MaxEvents =>
                    \A path \in WatchedFiles(handler) : ENABLED OnFileEvent(path, "good")
              /\ \A path \in WatchedFiles(handler), content \in {"good", "bad"} :
                    ( /\ OnFileEvent(path, content)
                      /\ Schedules(handler, path)
                      /\ ReloadKey(handler, path) \notin DOMAIN pending_reloads )
                    => /\ ReloadKey(handler, path) \in DOMAIN pending_reloads'
                       /\ threads' = Append(threads, NewThread(ReloadKey(handler, path)))
              /\ \A i \in ThreadIds : ENABLED StepOf(i) \/ ENABLED Tick
      ]_vars

\* C11 witness: an event delivered after a reload of its key had failed was
\* scheduled, its timer fired and its reload, the second of the key, runs.
C11_Witness ==
    \E i \in ThreadIds :
        /\ threads[i].after \in Failures
        /\ threads[i].pc \in ActionPcs
        /\ nactions[threads[i].key] = 2

\* The reloads inside execute: a thread is there from the step that moves
\* it to execute until its Execute step, which is the return of execute.
\* Every execute of a handler writes every service file of the handler.
Writers(f) == {i \in ThreadIds : threads[i].pc = "execute" /\ f \in Targets(handler)}

\* C12: the zone file of a domain and the generated mail maps and
\* credential database have at most one reload inside execute at a time.
C12_SingleWriter ==
    handler \in {"user", "dkim"} =>
        \A f \in Targets(handler) : Cardinality(Writers(f)) <= 1

\* C19: a move onto a watched name that a create would have scheduled a
\* reload for stores the pending record and starts the timer, as the
\* create does.
C19_MoveOntoWatchedSchedules ==
    [][\A src \in WatchedFiles(handler) \cup {TempFile},
          dest \in WatchedFiles(handler), content \in {"good", "bad"} :
          ( /\ OnMoved(src, dest, content)
            /\ Schedules(handler, dest)
            /\ ReloadKey(handler, dest) \notin DOMAIN pending_reloads )
          => /\ ReloadKey(handler, dest) \in DOMAIN pending_reloads'
             /\ threads' = Append(threads, NewThread(ReloadKey(handler, dest)))
      ]_vars

\* ------------------------------------------------------ claims: zone patcher
\* The digits of the serial line, and the order of two strings of digits as
\* numbers.
SerialOf(lines) == lines[FirstOfKind(lines, "serial")].text

RECURSIVE StripZeros(_)
StripZeros(s) ==
    IF Len(s) > 1 /\ SubSeq(s, 1, 1) = "0" THEN StripZeros(SubSeq(s, 2, Len(s)))
    ELSE s

NumLess(a, b) ==
    LET x == StripZeros(a)
        y == StripZeros(b) IN
    \/ Len(x) < Len(y)
    \/ /\ Len(x) = Len(y)
       /\ \E i \in 1..Len(x) :
             /\ SubSeq(x, 1, i - 1) = SubSeq(y, 1, i - 1)
             /\ DigitVal(SubSeq(x, i, i)) < DigitVal(SubSeq(y, i, i))

\* A step that is a call of update_zone_with_dkim.
IsUpdate == nupdates' = nupdates + 1

\* C13: an update that changes the content of the zone file leaves a serial
\* that is greater, as a number, than the serial before.
C13_SerialStrictlyIncreases ==
    [][(IsUpdate /\ zone_file' # zone_file)
          => NumLess(SerialOf(zone_file), SerialOf(zone_file'))]_vars

\* C14: after an update that was written and passed the zone check the
\* serial has ten digits: the old date with the two-digit suffix one higher
\* when the old date is today, else today followed by 01.
C14_SerialFormat ==
    [][(IsUpdate /\ zone_result'.check = "ok")
          => LET old == SerialOf(zone_file)
                 new == SerialOf(zone_file') IN
             /\ Len(new) = 10
             /\ IF SubSeq(old, 1, 8) = today
                  THEN /\ SubSeq(new, 1, 8) = SubSeq(old, 1, 8)
                       /\ ToInt(SubSeq(new, 9, 10)) = ToInt(SubSeq(old, 9, 10)) + 1
                  ELSE new = today \o "01"]_vars

\* The lines of the zone file that belong to a DKIM TXT record.
RecordKinds == {"record", "open", "quoted", "close"}
LinesOfKind(lines, kinds) == {i \in 1..Len(lines) : lines[i].kind \in kinds}

\* C15: after an update that passed the zone check the zone file holds one
\* marker comment, directly followed by the record of the key of that
\* update, and no other line of a DKIM record.
C15_ExactlyOneSection ==
    (zone_result.called /\ zone_result.check = "ok") =>
        LET record == DkimRecord(zone_result.key) IN
        /\ Cardinality(LinesOfKind(zone_file, {"marker"})) = 1
        /\ \E i \in LinesOfKind(zone_file, {"marker"}) :
              SubSeq(zone_file, i + 1, i + Len(record)) = record
        /\ Cardinality(LinesOfKind(zone_file, RecordKinds)) = Len(record)

EmittedFragments(lines) ==
    LET first == FirstOfKind(lines, "open")
        last == CHOOSE j \in (first + 1)..Len(lines) :
                    /\ lines[j].kind = "close"
                    /\ \A k \in (first + 1)..(j - 1) : lines[k].kind # "close" IN
    [k \in 1..(last - first) |-> lines[first + k - 1].text]

RECURSIVE Concat(_)
Concat(strings) ==
    IF strings = <<>> THEN "" ELSE Head(strings) \o Concat(Tail(strings))

CeilDiv(n, d) == (n + d - 1) \div d

\* The states after an update with a key of more than 255 characters that
\* passed the zone check and whose record is in the zone file.
LongKeyWritten ==
    /\ zone_result.called /\ zone_result.check = "ok"
    /\ Len(zone_result.key) > ChunkSize
    /\ HasKind(zone_file, {"open"})

\* C17 as claimed: the record of a key of L > 255 characters holds
\* ceil(L/255) quoted strings and their concatenation is the key.
C17_FragmentsAreTheKey ==
    LongKeyWritten =>
        LET fragments == EmittedFragments(zone_file) IN
        /\ Len(fragments) = CeilDiv(Len(zone_result.key), ChunkSize)
        /\ Concat(fragments) = zone_result.key

\* C17 amended: the record holds the header string followed by ceil(L/255)
\* key fragments, the first of them prefixed with p=; the concatenation of
\* the key fragments without that prefix is the key.
C17_HeaderThenKeyFragments ==
    LongKeyWritten =>
        LET fragments == EmittedFragments(zone_file)
            key_part == Concat(Tail(fragments)) IN
        /\ Len(fragments) = CeilDiv(Len(zone_result.key), ChunkSize) + 1
        /\ Head(fragments) = RecordHeader
        /\ SubSeq(key_part, 1, 2) = "p="
        /\ SubSeq(key_part, 3, Len(key_part)) = zone_result.key

\* C17 witness: a key of 511 characters written as the header and three key
\* fragments.
C17_Witness ==
    /\ LongKeyWritten
    /\ Len(zone_result.key) = 2 * ChunkSize + 1
    /\ Len(EmittedFragments(zone_file)) = 4

\* C18: no quoted string of the record of a key of more than 255
\* characters is longer than 255 characters.
C18_SegmentsAtMost255 ==
    LongKeyWritten =>
        LET fragments == EmittedFragments(zone_file) IN
        \A k \in 1..Len(fragments) : Len(fragments[k]) <= ChunkSize

\* -------------------------------------------------- claims: user provisioning
\* The key of a map line: the text before the first separator.
LineKey(line, sep) ==
    SubSeq(line, 1, (CHOOSE i \in 1..Len(line) :
                        /\ SubSeq(line, i, i) = sep
                        /\ \A j \in 1..(i - 1) : SubSeq(line, j, j) # sep) - 1)

HasEntry(lines, sep, email) ==
    \E i \in 1..Len(lines) : LineKey(lines[i], sep) = email

\* An execute that returned True.
Reloaded == \E fails \in UserEnv : ReloadUsers(fails) /\ user_result' = "ok"

\* C20: after an execute that returned True every enabled user with the
\* mail service has a line in the mailbox map and a line in the credential
\* database, and no two lines of the mailbox map have the same address.
C20_MapsCoverUsersOnce ==
    [][Reloaded =>
        /\ \A d \in 1..Len(Get(user_config, "domains", <<>>)) :
              LET domain_config == user_config.domains[d] IN
              \A u \in 1..Len(domain_config.users) :
                  LET user == domain_config.users[u] IN
                  (IsEnabled(user) /\ HasMail(user)) =>
                      /\ HasEntry(vmailbox', " ", EmailOf(user, domain_config.name))
                      /\ HasEntry(dovecot_passwd', ":", EmailOf(user, domain_config.name))
        /\ \A i, j \in 1..Len(vmailbox') :
              i # j => LineKey(vmailbox'[i], " ") # LineKey(vmailbox'[j], " ")]_vars

\* The addresses the mailbox map has to hold: those of the enabled users
\* with the mail service, among the domain users and among the test users.
Addresses(config) ==
    Flatten([d \in 1..Len(Get(config, "domains", <<>>)) |->
        LET domain_config == config.domains[d]
            users == EnabledMailUsers(domain_config.users) IN
        [i \in 1..Len(users) |-> EmailOf(users[i], domain_config.name)]])
    \o LET users == EnabledMailUsers(Get(config, "test_users", <<>>)) IN
       [i \in 1..Len(users) |-> users[i].username \o "@" \o users[i].domain]

Count(list, x) == Cardinality({i \in 1..Len(list) : list[i] = x})
MapKeys(lines, sep) == [i \in 1..Len(lines) |-> LineKey(lines[i], sep)]
Elements(list) == {list[i] : i \in 1..Len(list)}

\* C21: after an execute that returned True the mailbox map holds one line
\* per enabled user with the mail service, domain user or test user, and no
\* other line: every address is the key of as many lines as there are such
\* users with that address.
C21_MapLinesAreEnabledMailUsers ==
    [][Reloaded =>
        LET keys == MapKeys(vmailbox', " ")
            addresses == Addresses(user_config) IN
        \A e \in Elements(keys) \cup Elements(addresses) :
            Count(keys, e) = Count(addresses, e)]_vars

\* The password field of a line of the credential database.
PasswordField(line) ==
    LET rest == SubSeq(line, Len(LineKey(line, ":")) + 2, Len(line)) IN
    LineKey(rest, ":")

\* The passwords of the users the credential database gets a line for, in
\* the order of the lines.
StoredPasswords(config) ==
    Flatten([d \in 1..Len(Get(config, "domains", <<>>)) |->
        LET users == EnabledMailUsers(config.domains[d].users) IN
        [i \in 1..Len(users) |-> users[i].password]])
    \o LET users == MailTestUsers(Get(config, "test_users", <<>>)) IN
       [i \in 1..Len(users) |-> users[i].password]

Idempotent(password, stored) ==
    IF StartsWith(password, "$6$") THEN stored = password
    ELSE StartsWith(stored, "$6$")

\* C22: a password is stored unchanged when it carries the prefix $6$ and
\* as a value with that prefix otherwise, in the lines execute writes to
\* the credential database and in the user add_user writes to the
\* configuration.
C22_StorageIdempotent ==
    [][ /\ \A fails \in UserEnv :
             (/\ ReloadUsers(fails)
              /\ ExecuteStops(yaml_type, user_config, fails) \in {"reload", "done"}) =>
                LET passwords == StoredPasswords(user_config) IN
                /\ Len(dovecot_passwd') = Len(passwords)
                /\ \A i \in 1..Len(passwords) :
                      Idempotent(passwords[i], PasswordField(dovecot_passwd'[i]))
        /\ \A username \in AddNames, password \in AddPasswords :
             AddUser(username, password, SampleDomain, TRUE) =>
                LET users == user_config'.test_users IN
                Idempotent(password, users[Len(users)].password) ]_vars

\* ------------------------------------------------------ claims: health check
\* C23: the health check of the mail strategy passes exactly when the
\* submission port 587 and the mailbox-access port 143 accept a connect.
C23_HealthIsSubmissionAndImap ==
    [][\A i \in ThreadIds, open \in SUBSET Ports :
         HealthCheckWith(i, open) =>
            (log'.healthy = "ok" <=> {SubmissionPort, ImapPort} \subseteq open)]_vars

\* ------------------------------------------------------- claims: web session
\* C24: apache2ctl graceful is run only right after the configtest of the
\* same execute has returned 0; after a configtest that failed or timed
\* out the execute runs no graceful and reports failure.
C24_GracefulOnlyAfterConfigtest ==
    /\ \A k \in 1..Len(commands) :
          commands[k].cmd = "graceful" =>
             /\ k > 1
             /\ commands[k - 1].cmd = "configtest"
             /\ commands[k - 1].run = commands[k].run
             /\ commands[k - 1].result = "ok"
    /\ \A k \in 1..Len(commands) :
          (commands[k].cmd = "configtest" /\ commands[k].result # "ok") =>
             /\ \A j \in 1..Len(commands) :
                   ~(commands[j].run = commands[k].run /\ commands[j].cmd = "graceful")
             /\ commands[k].run = web_log.run =>
                   (web_log.success = "fail" /\ web_log.outcome = "Failed")

\* C24 witness: an execute whose configtest timed out, then an execute
\* that ran graceful.
C24_Witness ==
    /\ Len(commands) = 3
    /\ commands[1] = [run |-> 1, cmd |-> "configtest", result |-> "timeout"]
    /\ commands[3].cmd = "graceful" /\ commands[3].run = 2

\* A BEGIN and an END boundary of the same recognized label.
PemLabels == {"CERTIFICATE", "PRIVATE KEY", "RSA PRIVATE KEY"}
HasBoundaryPair(lines) ==
    \E label \in PemLabels : \E i, j \in 1..Len(lines) :
        IsSubstring(Begin(label), lines[i]) /\ IsSubstring(End(label), lines[j])

\* C25: the validator returns true exactly for a file that exists, can be
\* read and holds the BEGIN and the END boundary of one of the labels
\* CERTIFICATE, PRIVATE KEY, RSA PRIVATE KEY.
C25_ValidatorAcceptsBoundaryPairs ==
    web_log.run > 0 =>
        (web_log.validated <=>
            /\ web_log.checked.exists /\ web_log.readable
            /\ HasBoundaryPair(web_log.checked.lines))

\* C25 witness: a readable file with the BEGIN of a certificate and the
\* END of a private key is rejected after a file with a pair inside longer
\* lines was accepted.
C25_Witness ==
    /\ web_log.run = 2 /\ ~web_log.validated /\ web_log.readable
    /\ web_log.checked =
          PemFile(<<Begin("CERTIFICATE"), "MIIB", End("PRIVATE KEY")>>)
    /\ Len(commands) > 0

\* C27: when the root path does not exist the watcher reports an error and
\* never reaches its watch loop.
C27_MissingRootNeverWatches ==
    ~root_exists =>
        /\ watcher \notin {"watching", "stopped"}
        /\ watcher # "init" => errors # {}

\* ---------------------------------------------------- claims: user validator
\* The shape the validator is to require of a document.
WellFormed(type, config) ==
    /\ type = "dict"
    /\ \A d \in 1..Len(Get(config, "domains", <<>>)) :
          /\ {"name", "users"} \subseteq DOMAIN config.domains[d]
          /\ \A u \in 1..Len(config.domains[d].users) :
                {"username", "password"} \subseteq DOMAIN config.domains[d].users[u]

\* C26: a document the validator accepts is a mapping whose domains all
\* have name and users and whose domain users all have username and
\* password, and an execute on an accepted document never stops on a
\* missing field.
C26_AcceptedConfigsReload ==
    [][ /\ user_valid' = "accepted" => WellFormed(yaml_type', user_config')
        /\ \A fails \in UserEnv :
              (user_valid = "accepted" /\ ReloadUsers(fails)) =>
                  user_result' # "missing field" ]_vars

\* ------------------------------------------------------ claims: registration
\* C28: a login with the email and the password of a registration whose
\* token was confirmed before it expired succeeds.
C28_ConfirmedRegistrationLogsIn ==
    [][\A email \in Emails, password \in FormPasswords :
         (/\ Login(email, password)
          /\ \E token \in DOMAIN registrations :
                registrations[token] = [email |-> email, password |-> password,
                                        state |-> "confirmed"]) =>
            response'.status = "login successful"]_vars

\* ------------------------------------------------------- claims: stage order
\* A step that ends the reload action of a thread with one log line.
EndsWith(outcomes) ==
    /\ Len(threads') = Len(threads) - 1
    /\ log'.outcome \in outcomes

StaysAt(i, pc) == Len(threads') = Len(threads) /\ threads'[i].pc = pc

\* C29: in a reload action of the certificate or user handler the stages
\* run in the order validate, backup, execute, health check, each at most
\* once and each after the one before it has returned, and the action ends
\* with one log line, completed or an error.
C29_StagesInOrder ==
    [][handler # "dkim" =>
        \A i \in ThreadIds :
            /\ Validate(i) =>
                  /\ threads[i].validated = "-" /\ threads[i].backed_up = "-"
                  /\ threads[i].success = "-"
                  /\ IF Len(threads') < Len(threads)
                       THEN EndsWith(Failures) /\ log'.validated = "fail"
                       ELSE StaysAt(i, "backup") /\ threads'[i].validated = "ok"
            /\ Backup(i) =>
                  /\ threads[i].validated = "ok" /\ threads[i].backed_up = "-"
                  /\ threads[i].success = "-"
                  /\ StaysAt(i, "execute") /\ threads'[i].backed_up # "-"
            /\ Execute(i) =>
                  /\ threads[i].validated = "ok" /\ threads[i].backed_up # "-"
                  /\ threads[i].success = "-"
                  /\ IF Len(threads') < Len(threads)
                       THEN EndsWith({"Failed"}) /\ log'.success = "fail"
                       ELSE StaysAt(i, "health") /\ threads'[i].success = "ok"
            /\ HealthCheck(i) =>
                  /\ threads[i].validated = "ok" /\ threads[i].backed_up # "-"
                  /\ threads[i].success = "ok"
                  /\ EndsWith({"Completed", "Failed"})
                  /\ log'.healthy # "-"]_vars

\* C29 witness: an action of the certificate or user handler has gone
\* through the four stages and ended Completed.
C29_Witness ==
    /\ handler # "dkim"
    /\ log.validated = "ok" /\ log.backed_up # "-" /\ log.success = "ok"
    /\ log.healthy = "ok" /\ log.outcome = "Completed"

\* --------------------------------------------------------- claims: liveness
\* C30: a pending record does not stay: whenever the map holds a key,
\* later it does not hold it, and in the end the map is empty for good.
C30_PendingEventuallyRemoved ==
    /\ \A k \in Keys("mail") \cup Keys("user") \cup Keys("dkim") :
          (k \in DOMAIN pending_reloads) ~> (k \notin DOMAIN pending_reloads)
    /\ <>[](pending_reloads = EmptyDict)

\* C30 witness: all events have arrived, a reload has run, and the map is
\* empty with no thread left.
C30_Witness ==
    /\ nevents = MaxEvents
    /\ \E k \in DOMAIN nactions : nactions[k] > 0
    /\ pending_reloads = EmptyDict /\ threads = <<>>

\* ------------------------------------------------------ claims: lost events
\* An event on a file the recognizer matches (matching), or on one whose
\* event reaches the body of schedule_reload, leaves the file's key in the
\* pending map; a key leaves the map only in the step that calls the
\* handler for it; and a key in the map leaves it later.
EventLeavesRecord(matching) ==
    \A path \in WatchedFiles(handler), content \in {"good", "bad"} :
        /\ OnFileEvent(path, content)
        /\ IF matching THEN Recognized(handler, path)
                       ELSE Schedules(handler, path)
        => ReloadKey(handler, path) \in DOMAIN pending_reloads'

RemovalStartsAction ==
    \A k \in DOMAIN pending_reloads :
        k \notin DOMAIN pending_reloads' =>
            /\ nactions'[k] = nactions[k] + 1
            /\ \E i \in 1..Len(threads') :
                  threads'[i].key = k /\ threads'[i].pc = "validate"

RecordLeaves ==
    \A k \in Keys("mail") \cup Keys("user") \cup Keys("dkim") :
        (k \in DOMAIN pending_reloads) ~> (k \notin DOMAIN pending_reloads)

\* C31 as stated: after every created or modified event on a file the
\* handler's recognizer matches, a reload action for the file's key starts.
C31_NoChangeLost ==
    /\ [][EventLeavesRecord(TRUE) /\ RemovalStartsAction]_vars
    /\ RecordLeaves

\* C31 amended: after every created or modified event that schedule_reload
\* accepts (in the user handler: an event on users.yaml), a reload action
\* for the file's key starts, also when the event comes while a timer is
\* pending or while an earlier action for the key runs.
C31_NoAcceptedChangeLost ==
    /\ [][EventLeavesRecord(FALSE) /\ RemovalStartsAction]_vars
    /\ RecordLeaves

\* C31 witness: an event came for a key while the action of an earlier
\* event for it was running, and a second action for the key has started.
C31_Witness ==
    \E k \in DOMAIN nactions :
        /\ k \in late
        /\ nactions[k] = 2
        /\ Cardinality(RunningActions(k)) = 2

\* ---------------------------------------------------- claims: debounce delay
\* The seconds since the pending record of k was stored: the DKIM handler
\* stores the time itself, the other handlers store the record in the call
\* that starts the record's one timer thread.
RecordAge(k) ==
    IF handler = "dkim" THEN pending_reloads[k]
    ELSE LET i == CHOOSE j \in ThreadIds :
                     threads[j].key = k /\ threads[j].pc \in {"sleep", "del"}
         IN threads[i].slept

\* C32: the step that deletes a pending record and calls the handler comes
\* a full debounce delay or more after the event that stored the record.
C32_ActionAfterFullDelay ==
    [][\A i \in ThreadIds :
          (Delete(i) /\ threads[i].key \in DOMAIN pending_reloads) =>
              RecordAge(threads[i].key) >= DebounceTime]_vars

\* -------------------------------------------------- claims: no cancellation
NumRunning == Cardinality({i \in ThreadIds : threads[i].pc \in ActionPcs})

\* An event leaves every thread there is as it is.
EventKeepsThreads ==
    /\ \A path \in WatchedFiles(handler), content \in {"good", "bad"} :
          OnFileEvent(path, content) =>
              /\ Len(threads') >= Len(threads)
              /\ SubSeq(threads', 1, Len(threads)) = threads
    /\ \A src \in WatchedFiles(handler) \cup {TempFile},
          dest \in WatchedFiles(handler), content \in {"good", "bad"} :
          OnMoved(src, dest, content) => threads' = threads

\* A started action leaves only in a step of its own that writes its log
\* line, and until then only its own steps change it.
ActionEndsWithOutcome ==
    \A i \in ThreadIds :
        threads[i].pc \in ActionPcs =>
            \/ /\ Len(threads') >= Len(threads)
               /\ \/ threads'[i] = threads[i]
                  \/ /\ Validate(i) \/ Backup(i) \/ Execute(i) \/ HealthCheck(i)
                     /\ threads'[i].key = threads[i].key
                     /\ threads'[i].pc \in ActionPcs
            \/ /\ Len(threads') < Len(threads)
               /\ \/ \E j \in ThreadIds \ {i} : threads' = RemoveAt(threads, j)
                  \/ /\ threads' = RemoveAt(threads, i)
                     /\ Validate(i) \/ Backup(i) \/ Execute(i) \/ HealthCheck(i)
                     /\ log'.outcome \in Failures \cup {"Completed"}
                     /\ log'.validated = (IF threads[i].pc = "validate"
                                            THEN "fail" ELSE threads[i].validated)

\* C33: no event cancels or interrupts a reload action that has started:
\* an event changes no thread, an action ends only with its log line
\* (completed or an error), and every action that runs ends.
C33_StartedActionRunsToOutcome ==
    /\ [][EventKeepsThreads /\ ActionEndsWithOutcome]_vars
    /\ (NumRunning > 0) ~> (NumRunning = 0)
    /\ <>[](NumRunning = 0)

\* C33 witness: in the user handler an event for users.yaml came while the
\* action for it was running (a new timer sleeps, the action has reached
\* its health check).
C33_Witness ==
    /\ handler = "user"
    /\ \E k \in DOMAIN nactions :
          /\ k \in late /\ SleepingTimers(k) # {}
          /\ \E i \in RunningActions(k) : threads[i].pc = "health"

\* ------------------------------------------------ claims: stateless strategy
\* C34: every file a call of execute generates is generated from the
\* configuration that this call loaded, also when another call on the
\* same strategy object runs at the same time.
C34_GeneratesFromOwnConfig ==
    [][\A r \in 1..Len(execs) :
          /\ GenerateVmailboxMap(r) =>
                vmailbox' = generate_vmailbox_map(execs[r].loaded)
          /\ GenerateValiasMap(r) =>
                valias' = generate_valias_map(execs[r].loaded)
          /\ GenerateDovecotPasswd(r) =>
                dovecot_passwd' = generate_dovecot_passwd(execs[r].loaded)]_vars

\* ------------------------------------------------- claims: reported outcome
\* C35: in the certificate and user handlers a reload that has ended is
\* logged as completed exactly when its validation passed, execute
\* returned success and the health check passed; every other reload that
\* has ended is logged as an error.
C35_CompletedIffAllStagesPassed ==
    (handler # "dkim" /\ log.outcome # "-") =>
        /\ log.outcome = "Completed" <=>
              (log.validated = "ok" /\ log.success = "ok" /\ log.healthy = "ok")
        /\ log.outcome # "Completed" => log.outcome \in Failures
        /\ log.success = "fail" => log.healthy = "-"

\* C35 witness: validation and execute succeeded, the health check failed,
\* and the reload was logged as failed.
C35_Witness ==
    /\ handler # "dkim"
    /\ log.validated = "ok" /\ log.success = "ok" /\ log.healthy = "fail"
    /\ log.outcome = "Failed"

\* ------------------------------------------------ claims: mail reload order
\* C36: a call of the mail strategy's execute runs a reload command only
\* when the domain is set and both certificate files exist and were
\* copied; the commands it runs are postfix reload alone or postfix reload
\* followed by doveadm reload, and doveadm reload is not run when postfix
\* reload failed.
C36_MailReloadsAfterCopyInOrder ==
    [][handler = "mail" =>
        \A i \in ThreadIds, env \in ExecEnv :
            ExecuteWith(i, env) =>
                /\ issued' # <<>> =>
                      /\ domain # ""
                      /\ files[<<domain, "fullchain", ".pem">>] # "absent"
                      /\ files[<<domain, "privkey", ".pem">>] # "absent"
                      /\ env.io
                      /\ installed'["server.pem"] =
                            files[<<domain, "fullchain", ".pem">>]
                      /\ installed'["server.key"] =
                            files[<<domain, "privkey", ".pem">>]
                /\ issued' \in {<<>>, <<"postfix reload">>,
                               <<"postfix reload", "doveadm reload">>}
                /\ ~env.first => ~InList("doveadm reload", issued')]_vars

\* C36 witness: the certificates were copied, postfix reload failed and
\* was the only command run.
C36_Witness ==
    /\ handler = "mail" /\ domain # ""
    /\ issued = <<"postfix reload">>
    /\ installed["server.pem"] # "absent"
    /\ log.success = "fail"

\* -------------------------------------------------- claims: DKIM key check
\* Both key files of the domain are there and default.txt holds a p= value.
KeysComplete ==
    /\ files[DkimTxt] # "absent" /\ files[DkimPrivate] # "absent"
    /\ files[DkimTxt] = "good"

\* C37: handle_dkim_change goes on to the zone update exactly when, at its
\* check, both key files exist and a p= value is extracted from
\* default.txt; otherwise it ends there; and the zone file and the zone
\* backups change only in the update of a call that passed the check.
C37_ZoneUntouchedWithoutKeys ==
    [][handler = "dkim" =>
        /\ \A i \in ThreadIds :
              Validate(i) =>
                  IF KeysComplete
                    THEN StaysAt(i, "execute") /\ threads'[i].validated = "ok"
                    ELSE /\ threads' = RemoveAt(threads, i)
                         /\ log'.outcome = "Invalid"
        /\ (installed' # installed \/ backups' # backups) =>
              \E i \in ThreadIds :
                  /\ Execute(i)
                  /\ threads[i].validated = "ok"]_vars

\* C37 witness: default.txt with a key was written, default.private is
\* missing, the handler has ended at its check and the zone has neither
\* been written nor backed up.
C37_Witness ==
    /\ handler = "dkim"
    /\ files[DkimTxt] = "good" /\ files[DkimPrivate] = "absent"
    /\ log.outcome = "Invalid" /\ threads = <<>>
    /\ installed["zone"] = "absent" /\ backups = EmptyDict

\* ------------------------------------------------ claims: failed zone update
\* C38: when a call of update_zone_with_dkim returns False the zone file
\* has the content it had when the call was made.
C38_FailedUpdateLeavesZone ==
    [][\A public_key \in PublicKeys, env \in ZoneEnv :
          (update_zone_with_dkim(public_key, env) /\ ~zone_result'.returned)
              => zone_file' = zone_file]_vars

\* ------------------------------------------------ claims: 10-auth.conf rewrite
\* An include is in force on a line that holds it between blanks only.
Active(lines, include) == \E i \in 1..Len(lines) : Strip(lines[i]) = include

\* C39: a call of configure_dovecot_auth that rewrites a 10-auth.conf with
\* the system include in force leaves the system include out of force and
\* the passwd-file include in force, and the file any such call leaves is
\* one that further calls write back unchanged.
C39_RewriteIdempotent ==
    [][\A io_ok \in BOOLEAN :
          (RewriteAuthConf(io_ok) /\ io_ok) =>
              /\ Active(auth_conf, SystemInclude) =>
                    /\ ~Active(auth_conf', SystemInclude)
                    /\ Active(auth_conf', PasswdfileInclude)
              /\ configure_dovecot_auth(auth_conf') = auth_conf'
              /\ nrewrites > 0 /\ configure_dovecot_auth(auth_conf) = auth_conf
                    => auth_conf' = auth_conf]_vars

\* C39 witness: both calls were made and the file is the shipped one after
\* its rewrite, a line longer than every sample file.
C39_Witness ==
    /\ nrewrites = MaxRewrites
    /\ auth_conf = <<"auth_mechanisms = plain login", "#" \o SystemInclude,
                     PasswdfileInclude, PasswdfileInclude>>

\* ------------------------------------------------------ claims: rate limit
\* The attempts of the file made within the window before now and, when
\* the file holds a lockout, not before the end of that lockout.
RecentAttempts(data, now) ==
    SelectSeq(data.attempts,
              LAMBDA attempt : /\ attempt > now - Window
                               /\ data.locked => attempt >= data.lockout_until)

\* C40: a call of check_limit made while a lockout runs, or made when
\* max_attempts attempts or more were recorded within the window and since
\* the end of an earlier lockout, returns False.
C40_LimitedAfterMaxAttempts ==
    [][CheckLimit =>
          ((\/ rate_file.locked /\ clock < rate_file.lockout_until
            \/ Len(RecentAttempts(rate_file, clock)) >= MaxAttempts)
              => checked' = "False")]_vars

====
